---- MODULE Spec2Model ----
(***************************************************************************)
(* A model of assertroute (src/src/assertroute.ts): the assertion          *)
(* primitive, the AssertError failure object and its message, the value    *)
(* summarizer, toAssertError, handleError, the sync and async route        *)
(* wrappers, the overload dispatch of assertRoute / assertRouteAsync and   *)
(* the isValid validator; further typeOfDetailed and the type guards, the  *)
(* helpers assertSqlQuery / assertSqlRun and routeSafe, the aliases        *)
(* isNonEmptyString / isNonEmptyArray, and deepEqual / assertDeepEquals.   *)
(*                                                                         *)
(* Under Spec one behaviour is one top-level use of the library on the     *)
(* single JavaScript thread: a direct assert(condition), new AssertError   *)
(* or toAssertError call, a call of a guard, helper, alias or of           *)
(* assertDeepEquals, a route-wrapped function calling another one, a call  *)
(* of a validator built by isValid, or one                                 *)
(* call of assertRoute / assertRouteAsync followed (when the call returned *)
(* the wrapped function) by one call of that function.  The wrapped        *)
(* function fn is user code: a short list of steps (assert, throw, await,  *)
(* work) followed by `return ret`.  Under MultiSpec a behaviour is a       *)
(* program that builds several wrappers and calls them in any order, with  *)
(* calls of async wrappers suspended in between.                           *)
(***************************************************************************)
EXTENDS Integers, Sequences, FiniteSets, TLC

(* ------------------------------ bounds -------------------------------- *)
\* longest body (number of steps before `return`) of a wrapped function
MaxBody == 2
\* largest number of arguments a caller passes after the options
MaxTrailing == 2
\* largest number of assertions handed to isValid
MaxAsserts == 3
\* largest number of invocations a program makes of the wrappers it keeps
MaxInvs == 2
\* largest number of wrappers that program builds
MaxWrappers == 2

(* --------------------------- JavaScript values ------------------------ *)
\* A value: its kind t, a payload v, and the two properties the wrappers
\* read from an options object (absent on every other value).
Val(t, v) == [t |-> t, v |-> v, onError |-> "none", catchNonAssertErrors |-> "unset"]
Undef == Val("undefined", "")
Null == Val("null", "")
False == Val("boolean", "false")
True == Val("boolean", "true")
Num(s) == Val("number", s)
Str(s) == Val("string", s)
Obj(s) == Val("object", s)
Fn(s) == Val("function", s)

Arr(s) == Val("array", s)

\* the `typeof` operator
TypeOf(x) == IF x.t \in {"null", "array", "date"} THEN "object" ELSE x.t

\* ToBoolean, as `if (!condition)` applies it
Truthy(x) ==
  /\ x.t \notin {"undefined", "null"}
  /\ x \notin {False, Num("0"), Num("-0"), Num("NaN"), Val("bigint", "0"), Str("")}

\* conditions handed to a direct assert(condition)
Conds ==
  {Undef, Null, False, True, Num("0"), Num("-0"), Num("NaN"), Num("1"),
   Val("bigint", "0"), Val("bigint", "1"), Str(""), Str("a"), Str("false"), Obj("o"),
   Fn("f")}

\* an options object { onError, catchNonAssertErrors }
OptionsObj(oe, c) ==
  [t |-> "object", v |-> "options", onError |-> oe, catchNonAssertErrors |-> c]

\* what a caller passes as options: nothing, or an options object whose
\* onError is absent, a callback that returns, or a callback that throws,
\* and whose catchNonAssertErrors is absent, true, or an explicit false
OptionsVals ==
  {Undef} \cup {OptionsObj(oe, c) : oe \in {"none", "returns", "throws"},
                                    c \in {"unset", "true"}}
          \cup {OptionsObj("returns", "false")}

\* the function the caller wraps
UserFn == Fn("fn")
\* what a caller may write in first, second and third position of
\* assertRoute(...) / assertRouteAsync(...), whichever form was meant
FirstArgs == {Undef, Null, Num("0"), UserFn, Fn("g")}
SecondArgs == {Undef, UserFn, OptionsObj("returns", "true")}
ThirdArgs == {Undef, OptionsObj("throws", "unset")}
Fallbacks == {Num("0")}
\* what fn may return
RetVals == {Num("42"), Num("0"), Undef, Null}
\* marks a slot that holds no value yet
NoVal == Val("none", "")

\* the first n call arguments: 1, 2, ...
ArgTuple(n) == [i \in 1..n |-> Num(ToString(i))]

(* ------------------------------ errors -------------------------------- *)
\* A thrown value: class, discriminant code, identity, message and cause.
\* Objects get a fresh id when created; a thrown primitive has id 0.
Err(cls, code, id, msg, ccls, cid) ==
  [cls |-> cls, code |-> code, id |-> id, msg |-> msg, causeCls |-> ccls, causeId |-> cid]
NoErr == Err("none", "", 0, "", "none", 0)
\* how a call ended (st), with its value or its thrown / rejection value
Out(st, val, err) == [st |-> st, val |-> val, err |-> err]
NoOut == Out("none", Undef, NoErr)

(* summarizeValue *)
\* the character U+2026, written with three dots in this module
Ellipsis == "..."
\* the elements of the arrays given as info.value
Elems(x) ==
  CASE x.v = "e0" -> <<>>
    [] x.v = "e3" -> <<Num("1"), Num("2"), Num("3")>>
    [] x.v = "e4" -> <<Num("1"), Num("2"), Num("3"), Num("4")>>
    [] x.v = "big" -> <<Num("1"), Val("bigint", "1")>>
    [] x.v = "cyc" -> <<Arr("cyc")>>
    [] x.v = "getter" -> <<Obj("getter")>>
\* the own enumerable keys of the objects given as info.value; "cyc" is
\* `o = {}; o.self = o`, "getter" is `{ get a() { throw new Error('boom') } }`
Keys(x) ==
  CASE x.v = "k2" -> <<"a", "b">>
    [] x.v = "k3" -> <<"a", "b", "c">>
    [] x.v = "k4" -> <<"a", "b", "c", "d">>
    [] x.v = "cyc" -> <<"self">>
    [] x.v = "getter" -> <<"a">>
    [] OTHER -> <<>>
\* s.slice(0, n)
Take(s, n) == SubSeq(s, 1, IF Len(s) < n THEN Len(s) ELSE n)
\* parts.join(sep)
RECURSIVE Join(_, _)
Join(parts, sep) ==
  IF parts = <<>> THEN ""
  ELSE IF Len(parts) = 1 THEN parts[1]
  ELSE parts[1] \o sep \o Join(Tail(parts), sep)
\* JSON.stringify(x) of an array element: its text, or what it throws: a
\* TypeError for a BigInt and for a structure that contains itself, the
\* getter's own Error for an object whose property getter throws
JSONStringify(x) ==
  IF x.t = "bigint"
  THEN [st |-> "throw", cls |-> "TypeError", text |-> "Do not know how to serialize a BigInt"]
  ELSE IF x.v = "cyc" /\ x.t \in {"array", "object"}
  THEN [st |-> "throw", cls |-> "TypeError", text |-> "Converting circular structure to JSON"]
  ELSE IF x = Obj("getter") THEN [st |-> "throw", cls |-> "Error", text |-> "boom"]
  ELSE IF x.t = "string" THEN [st |-> "ok", cls |-> "", text |-> "\"" \o x.v \o "\""]
  ELSE IF x.t = "null" \/ x = Num("NaN") THEN [st |-> "ok", cls |-> "", text |-> "null"]
  ELSE IF x = Num("-0") THEN [st |-> "ok", cls |-> "", text |-> "0"]
  ELSE [st |-> "ok", cls |-> "", text |-> x.v]
\* String(v) of undefined, a boolean, a number, a bigint or a function
\* (Fn("fn") is `function fn() {}`: its source text)
StringOf(x) ==
  IF x.t = "undefined" THEN "undefined"
  ELSE IF x.t = "function" THEN "function " \o x.v \o "() {}"
  ELSE IF x = Num("-0") THEN "0"
  ELSE x.v
\* (v as string).slice(0, 12)
Slice12(x) ==
  IF Len(x.v) <= 12 THEN x.v
  ELSE CASE x.v = "abcdefghijklmnop" -> "abcdefghijkl"
\* v.slice(0, 3).map((x) => JSON.stringify(x)): the results, one per element
MapStringify(first) == [i \in 1..Len(first) |-> JSONStringify(first[i])]
\* the first of the results js that is a throw
FirstThrow(js) == js[CHOOSE i \in 1..Len(js) : js[i].st = "throw" /\ \A j \in 1..(i - 1) : js[j].st = "ok"]
\* the array branch of summarizeValue, js being the stringified sample
summarizeArray(len, js) ==
  IF \E i \in 1..Len(js) : js[i].st = "throw"
  THEN FirstThrow(js)
  ELSE [st |-> "ok", cls |-> "",
        text |-> "array(len=" \o ToString(len) \o ", sample=["
                 \o Join([i \in 1..Len(js) |-> js[i].text], ", ")
                 \o (IF len > 3 THEN ", " \o Ellipsis ELSE "") \o "])"]
\* summarizeValue(v): [st |-> "ok", text |-> the summary], or st = "throw"
\* with the class and message of what JSON.stringify throws
summarizeValue(v) ==
  IF v.t = "null" THEN [st |-> "ok", cls |-> "", text |-> "null"]
  ELSE IF v.t = "array" THEN summarizeArray(Len(Elems(v)), MapStringify(Take(Elems(v), 3)))
  ELSE IF TypeOf(v) = "object" THEN
    LET keys == Take(Keys(v), 3)
    IN [st |-> "ok", cls |-> "",
        text |-> "object(keys=[" \o Join(keys, ", ")
                 \o (IF Len(keys) > 3 THEN ", " \o Ellipsis ELSE "") \o "])"]
  ELSE IF v.t = "string" THEN
    [st |-> "ok", cls |-> "",
     text |-> "string(len=" \o ToString(Len(v.v)) \o ", sample=\"" \o Slice12(v)
              \o (IF Len(v.v) > 12 THEN Ellipsis ELSE "") \o "\")"]
  ELSE [st |-> "ok", cls |-> "", text |-> TypeOf(v) \o "(" \o StringOf(v) \o ")"]

\* values given as info.value
SumVals ==
  {Undef, Null, Num("0"), True, Str(""), Str("hello"), Str("abcdefghijklmnop"),
   Str("abcdefghijkl"), UserFn,
   Arr("e0"), Arr("e3"), Arr("e4"), Arr("big"), Arr("cyc"), Arr("getter"),
   Obj("k0"), Obj("k2"), Obj("k3"), Obj("k4"), Obj("cyc"), Obj("getter")}

(* class AssertError *)
\* the `info` argument: not given, given without a `value` entry, or given
\* with one
NoInfo == [given |-> FALSE, hasValue |-> FALSE, value |-> Undef]
InfoOther == [given |-> TRUE, hasValue |-> FALSE, value |-> Undef]
InfoValue(v) == [given |-> TRUE, hasValue |-> TRUE, value |-> v]

\* what `new Error().stack` holds when the constructor runs: nothing, text
\* whose fourth line names no function, or text whose fourth line names one
StackKinds == {"absent", "unnamed", "named"}
\* getCallerName(3): the function name, or "" for undefined
getCallerName(stack) == IF stack = "named" THEN "checkUser" ELSE ""

\* (a constructor that keeps an empty message as it is)
AssertErrorCtorKeepEmpty(id, message, info, cause, caller) ==
  [st |-> "ok", err |-> Err("AssertError", "ASSERT_FAILED", id, message, cause.cls, cause.id)]

\* (a constructor that appends the summary whenever info has a value entry)
AssertErrorCtorAlwaysAppend(id, message, info, cause, caller) ==
  LET base == IF message # "" THEN message
              ELSE (IF caller = "" THEN "assert" ELSE caller) \o " failed"
      sum == summarizeValue(info.value)
  IN IF info.hasValue /\ sum.st = "throw"
     THEN [st |-> "throw", err |-> Err(sum.cls, "", id, sum.text, "none", 0)]
     ELSE [st |-> "ok",
           err |-> Err("AssertError", "ASSERT_FAILED", id,
                       IF info.hasValue THEN base \o " (got: " \o sum.text \o ")" ELSE base,
                       cause.cls, cause.id)]

\* new AssertError(message, info, cause), caller being what getCallerName
\* returned: [st |-> "ok", err |-> the object], or st = "throw" with the
\* TypeError of summarizeValue
AssertErrorCtor(id, message, info, cause, caller) ==
  LET summarize == info.hasValue /\ info.value # Undef
      sum == summarizeValue(info.value)
      base == IF message # "" THEN message
              ELSE (IF caller = "" THEN "assert" ELSE caller) \o " failed"
  IN IF summarize /\ sum.st = "throw"
     THEN [st |-> "throw", err |-> Err(sum.cls, "", id, sum.text, "none", 0)]
     ELSE [st |-> "ok",
           err |-> Err("AssertError", "ASSERT_FAILED", id,
                       IF summarize THEN base \o " (got: " \o sum.text \o ")" ELSE base,
                       cause.cls, cause.id)]

\* new AssertError(message, info, cause) with an info that has no `value`
AssertErrorNew(id, message, caller, cause) ==
  AssertErrorCtor(id, message, NoInfo, cause, caller).err

\* e instanceof AssertError
IsAssertError(e) == e.cls = "AssertError"

\* e instanceof Error
IsError(e) == e.cls \in {"AssertError", "Error", "TypeError"}

\* what user code throws: new Error('boom'), the string 'oops', or an
\* object without prototype (String(e) throws a TypeError on it)
ThrowVals == {Obj("Error"), Str("oops"), Obj("nullproto")}
UserThrow(x, id) ==
  IF x = Obj("Error") THEN Err("Error", "", id, "boom", "none", 0)
  ELSE IF x.t = "string" THEN Err("string", "", 0, x.v, "none", 0)
  ELSE Err("nullproto", "", id, "", "none", 0)

\* (an assert that compares with `=== false` instead of testing falsiness)
assertStrictFalse(condition, id) ==
  IF condition = False THEN AssertErrorNew(id, "Assertion failed", "", NoErr) ELSE NoErr

\* assert(condition, message = 'Assertion failed'): the error thrown, or NoErr
\* when the call returns
assert(condition, id) ==
  IF ~Truthy(condition) THEN AssertErrorNew(id, "Assertion failed", "", NoErr) ELSE NoErr

(* typeOfDetailed and the guards *)
\* the runtime: "dom" has the global HTMLElement, "node" does not
Envs == {"dom", "node"}
\* a valid Date
ADate == Val("date", "2020-01-01T00:00:00.000Z")
\* values handed to the guards (the objects are plain objects, not elements)
GuardVals ==
  {Undef, Null, Num("0"), Num("NaN"), True, Str("hello"), Str("abcdefghijklmnop"),
   Arr("e0"), Arr("e3"), Arr("e4"), Arr("big"), Obj("k2"), Obj("k4"), UserFn, ADate}

\* the array branch of typeOfDetailed, js being the stringified sample
describeArray(len, js) ==
  IF \E i \in 1..Len(js) : js[i].st = "throw"
  THEN FirstThrow(js)
  ELSE [st |-> "ok", cls |-> "",
        text |-> "array(len=" \o ToString(len)
                 \o (IF len # 0
                     THEN ", sample=[" \o Join([i \in 1..Len(js) |-> js[i].text], ", ")
                          \o (IF len > 3 THEN ", " \o Ellipsis ELSE "") \o "]"
                     ELSE "")
                 \o ")"]
\* typeOfDetailed(x) in runtime env: [st |-> "ok", text |-> the description],
\* or st = "throw" with the class and message of what it throws
typeOfDetailed(x, env) ==
  IF x.t = "null" THEN [st |-> "ok", cls |-> "", text |-> "null"]
  ELSE IF x.t = "array" THEN describeArray(Len(Elems(x)), MapStringify(Take(Elems(x), 3)))
  ELSE IF x.t = "date" THEN [st |-> "ok", cls |-> "", text |-> "date(" \o x.v \o ")"]
  ELSE IF env = "node"
  THEN [st |-> "throw", cls |-> "ReferenceError", text |-> "HTMLElement is not defined"]
  ELSE IF TypeOf(x) = "object" THEN
    LET keys == Keys(x)
    IN [st |-> "ok", cls |-> "",
        text |-> "object(keys=[" \o Join(Take(keys, 3), ", ")
                 \o (IF Len(keys) > 3 THEN ", " \o Ellipsis ELSE "") \o "])"]
  ELSE IF x.t = "string" THEN
    [st |-> "ok", cls |-> "",
     text |-> "string(len=" \o ToString(Len(x.v)) \o ", sample=\"" \o Slice12(x)
              \o (IF Len(x.v) > 12 THEN Ellipsis ELSE "") \o "\")"]
  ELSE IF x.t = "number" THEN [st |-> "ok", cls |-> "", text |-> "number(" \o StringOf(x) \o ")"]
  ELSE IF x.t = "boolean" THEN [st |-> "ok", cls |-> "", text |-> "boolean(" \o x.v \o ")"]
  ELSE IF x.t = "function"
  THEN [st |-> "ok", cls |-> "",
        text |-> "function(" \o (IF x.v # "" THEN x.v ELSE "anonymous") \o ")"]
  ELSE IF x.t = "undefined" THEN [st |-> "ok", cls |-> "", text |-> "undefined"]
  ELSE [st |-> "ok", cls |-> "", text |-> TypeOf(x)]

isString(x) == x.t = "string"
isNumber(x) == x.t = "number" /\ x.v \notin {"NaN", "Infinity", "-Infinity"}
isBoolean(x) == x.t = "boolean"
isArray(x) == x.t = "array"
isObject(x) == TypeOf(x) = "object" /\ x.t # "null" /\ x.t # "array"
isDefined(x) == x.t # "undefined"

Guards ==
  {"assertArray", "assertObject", "assertString", "assertNumber", "assertBoolean",
   "assertDefined"}
\* the predicate a guard asserts
GuardHolds(g, x) ==
  CASE g = "assertArray" -> isArray(x)
    [] g = "assertObject" -> isObject(x)
    [] g = "assertString" -> isString(x)
    [] g = "assertNumber" -> isNumber(x)
    [] g = "assertBoolean" -> isBoolean(x)
    [] g = "assertDefined" -> isDefined(x)
\* the default message of a guard
GuardMessage(g) ==
  CASE g = "assertArray" -> "Expected array"
    [] g = "assertObject" -> "Expected object"
    [] g = "assertString" -> "Expected string"
    [] g = "assertNumber" -> "Expected number"
    [] g = "assertBoolean" -> "Expected boolean"
    [] g = "assertDefined" -> "Expected defined"
\* the `got` entry a guard computes before it calls assert
GuardGot(g, x, env) ==
  IF g = "assertArray" /\ x.t = "array" THEN [st |-> "ok", cls |-> "", text |-> "array"]
  ELSE IF g = "assertObject"
  THEN [st |-> "ok", cls |-> "",
        text |-> IF x.t = "array" THEN "array" ELSE IF x.t = "null" THEN "null" ELSE TypeOf(x)]
  ELSE typeOfDetailed(x, env)
\* assert(<predicate>(x), message, { ...info, got }) once `got` was computed
GuardAssert(g, x, got, message, id) ==
  IF got.st = "throw"
  THEN [st |-> "throw", got |-> "", err |-> Err(got.cls, "", id, got.text, "none", 0)]
  ELSE IF ~GuardHolds(g, x)
  THEN [st |-> "throw", got |-> got.text,
        err |-> AssertErrorCtor(id, message, InfoOther, NoErr, "").err]
  ELSE [st |-> "ok", got |-> got.text, err |-> NoErr]
\* a guard g(x, message): the arguments of assert are evaluated first (the
\* `got` entry included), then assert runs; [st |-> "ok"] when it returns,
\* else st = "throw" with the value thrown
GuardCallMsg(g, x, env, message, id) == GuardAssert(g, x, GuardGot(g, x, env), message, id)
\* a guard g(x) with its default message
GuardCall(g, x, env, id) == GuardCallMsg(g, x, env, GuardMessage(g), id)

(* the aliases isNonEmptyString / isNonEmptyArray *)
Aliases == {"isNonEmptyString", "isNonEmptyArray"}
AliasVals == {Str("hello"), Str(""), Arr("e3"), Arr("e0"), Num("0")}
\* the input is what the alias is named after
NonEmptyFor(a, x) ==
  IF a = "isNonEmptyString" THEN x.t = "string" /\ x.v # ""
  ELSE x.t = "array" /\ Len(Elems(x)) > 0
\* the default message of assertNonEmptyString / assertArrayNotEmpty
AliasMessage(a) ==
  IF a = "isNonEmptyString" THEN "Expected non-empty string" ELSE "Expected non-empty array"
\* assertNonEmptyString / assertArrayNotEmpty: r is how the type guard on
\* its first line ended; then `assert(x.length > 0, message)`
assertNonEmpty(a, x, message, r, id) ==
  IF r.st = "throw" THEN [st |-> "throw", val |-> Undef, err |-> r.err]
  ELSE IF ~NonEmptyFor(a, x)
  THEN [st |-> "throw", val |-> Undef,
        err |-> AssertErrorCtor(id, message, NoInfo, NoErr, "").err]
  ELSE [st |-> "return", val |-> Undef, err |-> NoErr]
\* isNonEmptyString(x) = assertNonEmptyString(x, undefined) and
\* isNonEmptyArray(x) = assertArrayNotEmpty(x, undefined): what the arrow
\* function returns (the result of a void function) or throws
aliasCall(a, x, env, id) ==
  assertNonEmpty(a, x, AliasMessage(a),
                 GuardCallMsg(IF a = "isNonEmptyString" THEN "assertString" ELSE "assertArray",
                              x, env, AliasMessage(a), id),
                 id)

\* toAssertError(e), caller being what getCallerName returns inside the
\* constructor: [st |-> "ok", err |-> the AssertError] or, when String(e)
\* throws, [st |-> "throw", err |-> that TypeError]; used = objects created
toAssertErrorAt(e, id, caller) ==
  IF IsAssertError(e) THEN [st |-> "ok", err |-> e, used |-> 0]
  ELSE IF IsError(e) THEN
    [st |-> "ok", err |-> AssertErrorNew(id, e.msg, caller, e), used |-> 1]
  ELSE IF e.cls = "nullproto" THEN
    [st |-> "throw",
     err |-> Err("TypeError", "", id, "Cannot convert object to primitive value", "none", 0),
     used |-> 1]
  ELSE
    LET err == Err("Error", "", id, e.msg, "none", 0)
    IN [st |-> "ok", err |-> AssertErrorNew(id + 1, err.msg, caller, err), used |-> 2]

\* caught values handed to a direct toAssertError(e): a Failure, a thrown
\* value of user code, or an Error whose message is empty; each the first
\* object of the run
NormVals ==
  {Err("AssertError", "ASSERT_FAILED", 1, "Assertion failed", "none", 0),
   Err("Error", "", 1, "", "none", 0)} \cup {UserThrow(x, 1) : x \in ThrowVals}
\* the message argument of a direct new AssertError(message, info): "" is an
\* omitted or empty message
Messages == {"", "custom"}
Infos == {NoInfo, InfoOther} \cup {InfoValue(v) : v \in SumVals}

\* toAssertError(e) as handleError calls it
toAssertError(e, id) == toAssertErrorAt(e, id, "")

\* the error a throwing onError callback raises
CallbackError(id) == Err("Error", "", id, "onError failed", "none", 0)

\* onError?.(e): the callback's calls and whether it threw
CallOnError(onError, e, id) ==
  IF onError = "none" THEN [cb |-> <<>>, st |-> "ok", err |-> NoErr, used |-> 0]
  ELSE IF onError = "returns" THEN [cb |-> <<e>>, st |-> "ok", err |-> NoErr, used |-> 0]
  ELSE [cb |-> <<e>>, st |-> "throw", err |-> CallbackError(id), used |-> 1]

\* (a handleError that recovers every exception, whatever the flag says)
handleErrorCatchAll(e, onError, catchNonAssertErrors, fallback, id) ==
  LET c == CallOnError(onError, e, id)
  IN IF c.st = "throw"
     THEN [cb |-> c.cb, st |-> "throw", val |-> Undef, err |-> c.err, used |-> c.used]
     ELSE [cb |-> c.cb, st |-> "return", val |-> fallback, err |-> NoErr, used |-> c.used]

\* handleError(e, onError, catchNonAssertErrors, fallback): the calls of
\* onError it makes (cb), and how it ends: st = "return" with val, or
\* st = "throw" with err
handleError(e, onError, catchNonAssertErrors, fallback, id) ==
  IF IsAssertError(e) THEN
    LET c == CallOnError(onError, e, id)
    IN IF c.st = "throw"
       THEN [cb |-> c.cb, st |-> "throw", val |-> Undef, err |-> c.err, used |-> c.used]
       ELSE [cb |-> c.cb, st |-> "return", val |-> fallback, err |-> NoErr, used |-> c.used]
  ELSE IF catchNonAssertErrors THEN
    LET ae == toAssertError(e, id)
        c == CallOnError(onError, ae.err, id + ae.used)
    IN IF ae.st = "throw"
       THEN [cb |-> <<>>, st |-> "throw", val |-> Undef, err |-> ae.err, used |-> ae.used]
       ELSE IF c.st = "throw"
       THEN [cb |-> c.cb, st |-> "throw", val |-> Undef, err |-> c.err,
             used |-> ae.used + c.used]
       ELSE [cb |-> c.cb, st |-> "return", val |-> fallback, err |-> NoErr,
             used |-> ae.used + c.used]
  ELSE [cb |-> <<>>, st |-> "throw", val |-> Undef, err |-> e, used |-> 0]

\* the destructuring `{ onError, catchNonAssertErrors = false } = {}` of the
\* wrappers' third parameter
WrapOptions(opts) ==
  [onError |-> opts.onError, catchNonAssertErrors |-> (opts.catchNonAssertErrors = "true")]

\* assertRoute / assertRouteAsync: which positional argument is the fallback,
\* the function and the options, and the rest parameter `args`
ArgAt(argv, i) == IF i <= Len(argv) THEN argv[i] ELSE Undef

\* (a dispatch that looks for the function in second position)
DispatchBySecondArg(argv) ==
  LET rest == IF Len(argv) > 3 THEN SubSeq(argv, 4, Len(argv)) ELSE <<>>
  IN IF TypeOf(ArgAt(argv, 2)) # "function"
     THEN [fallback |-> Undef, fn |-> ArgAt(argv, 1), opts |-> ArgAt(argv, 2), args |-> rest]
     ELSE [fallback |-> ArgAt(argv, 1), fn |-> ArgAt(argv, 2), opts |-> ArgAt(argv, 3),
           args |-> rest]

Dispatch(argv) ==
  LET rest == IF Len(argv) > 3 THEN SubSeq(argv, 4, Len(argv)) ELSE <<>>
  IN IF TypeOf(ArgAt(argv, 1)) = "function"
     THEN [fallback |-> Undef, fn |-> ArgAt(argv, 1), opts |-> ArgAt(argv, 2), args |-> rest]
     ELSE [fallback |-> ArgAt(argv, 1), fn |-> ArgAt(argv, 2), opts |-> ArgAt(argv, 3),
           args |-> rest]

(* a call of the closure built by wrapSync *)
\* how a call of the closure ends once fn returned ret or threw e and, in
\* the catch clause, handleError gave h
wrappedEnd(e, ret, h) ==
  IF e = NoErr THEN Out("returned", ret, NoErr)
  ELSE IF h.st = "return" THEN Out("returned", h.val, NoErr)
  ELSE Out("threw", Undef, h.err)
\* a call of the closure wrapSync builds from the dispatched arguments d:
\* `try { return fn(...args) } catch (e) { return handleError(e, onError,
\* catchNonAssertErrors, fallback) }`, fn returning ret or throwing e
wrappedCall(d, e, ret, id) ==
  wrappedEnd(e, ret,
             handleError(e, WrapOptions(d.opts).onError,
                         WrapOptions(d.opts).catchNonAssertErrors, d.fallback, id))

(* assertSqlQuery / assertSqlRun *)
SqlKinds == {"assertSqlQuery", "assertSqlRun"}
\* what the statement gives: stmt.all(...params) gives rows, no rows, or
\* something that is not an array; stmt.run(...params).changes is 0 or 2
DbResults(kind) ==
  IF kind = "assertSqlQuery" THEN {Arr("e3"), Arr("e0"), Null} ELSE {Num("0"), Num("2")}
\* the fallback argument: the default ([] resp. 0) or the caller's own
SqlFallbacks(kind) ==
  IF kind = "assertSqlQuery" THEN {Arr("e0"), Arr("e4")} ELSE {Num("0"), Num("-1")}
\* the callback handed to assertRoute, run once: prepare, all/run, assert,
\* return
SqlBody(kind, res, id) ==
  LET ok == IF kind = "assertSqlQuery" THEN res.t = "array" ELSE res # Num("0")
  IN IF ok THEN [val |-> res, err |-> NoErr]
     ELSE [val |-> Undef,
           err |-> AssertErrorCtor(id, IF kind = "assertSqlQuery"
                                      THEN "Query did not return array"
                                      ELSE "Expected sql to affect rows",
                                   NoInfo, NoErr, "").err]
\* `args.length ? wrapped(...args) : wrapped` for the dispatched arguments
\* d, r being what the callback does when it is run
assertSqlVia(d, r, id) ==
  IF Len(d.args) = 0
  THEN [out |-> Out("returned", Fn("wrapped"), NoErr), prepares |-> 0, runs |-> 0]
  ELSE [out |-> wrappedCall(d, r.err, r.val, id), prepares |-> 1, runs |-> 1]
\* assertSqlQuery(db, sql, params, fallback) / assertSqlRun(...): what
\* `return assertRoute(fallback, () => {...})` returns, and how often the
\* statement was prepared and run while it did
assertSql(kind, res, fb, id) ==
  assertSqlVia(Dispatch(<<fb, Fn(kind)>>), SqlBody(kind, res, id), id + 1)

(* isValid(a) next to the route of (...args) => { a(...args); return true } *)
\* an assertion a: one that passes, one that fails an assert, one that
\* throws a value made beforehand, one that asserts its first argument
AssertionFns == {"passes", "fails", "throws", "firstArg"}
\* the argument tuples a is called with
AgreeArgs == {<<>>, <<Num("0")>>, <<Num("1"), Num("0")>>}
\* a(...argv): NoErr when it returns, else the value it throws (x, made
\* before the call, keeps its identity 1)
AssertionRun(a, x, argv, id) ==
  CASE a = "passes" -> NoErr
    [] a = "fails" -> assert(False, id)
    [] a = "throws" -> UserThrow(x, 1)
    [] a = "firstArg" -> assert(ArgAt(argv, 1), id)
\* (a catch clause that answers false to whatever was thrown)
isValidCatchAll(e) == Out("returned", False, NoErr)
\* the validator's catch clause: `if (e instanceof AssertError) return
\* false; throw e`
isValidCatch(e) ==
  IF IsAssertError(e) THEN Out("returned", False, NoErr) ELSE Out("threw", Undef, e)
\* isValid(a)(...argv)
isValidOne(a, x, argv, id) ==
  LET e == AssertionRun(a, x, argv, id)
  IN IF e = NoErr THEN Out("returned", True, NoErr) ELSE isValidCatch(e)
\* assertRoute(false, (...args) => { a(...args); return true })(...argv)
routeOne(a, x, argv, id) ==
  wrappedCall(Dispatch(<<False, UserFn>>), AssertionRun(a, x, argv, id), True, id + 1)

(* deepEqual / assertDeepEquals *)
\* a value compared by deepEqual: a primitive (v its literal), or an object
\* with identity id: an array or Set with its items in order, a plain object
\* with its keys and their values, a Map with its keys and their values
DV(k, id, v, keys, items) == [k |-> k, id |-> id, v |-> v, keys |-> keys, items |-> items]
Prim(v) == DV("prim", 0, v, <<>>, <<>>)
ArrOf(id, items) == DV("array", id, "", <<>>, items)
SetOf(id, items) == DV("set", id, "", <<>>, items)
ObjOf(id, keys, items) == DV("object", id, "", keys, items)
MapOf(id, keys, items) == DV("map", id, "", keys, items)
\* the values handed to assertDeepEquals: [1], [1] and {a: 1}, {a: 1} are
\* distinct objects with equal contents
DeepVals ==
  LET a1 == ArrOf(1, <<Prim("1")>>)
      a1b == ArrOf(2, <<Prim("1")>>)
      a2 == ArrOf(3, <<Prim("2")>>)
      o1 == ObjOf(4, <<"a">>, <<Prim("1")>>)
      o1b == ObjOf(5, <<"a">>, <<Prim("1")>>)
  IN {Prim("1"), Prim("2"), Prim("NaN"), Prim("null"),
      a1, a1b, a2, ArrOf(6, <<Prim("1"), Prim("2")>>), ArrOf(7, <<Prim("NaN")>>),
      ArrOf(8, <<a1, o1>>), ArrOf(9, <<a1b, o1b>>),
      o1, o1b, ObjOf(10, <<"a", "b">>, <<Prim("1"), Prim("2")>>),
      ObjOf(11, <<"b", "a">>, <<Prim("2"), Prim("1")>>), ObjOf(12, <<"b">>, <<Prim("1")>>),
      ObjOf(13, <<"a">>, <<a1>>), ObjOf(14, <<>>, <<>>),
      SetOf(15, <<Prim("1"), Prim("2")>>), SetOf(16, <<Prim("2"), Prim("1")>>),
      SetOf(17, <<Prim("NaN")>>), SetOf(18, <<a1, a1b>>), SetOf(19, <<a1, a2>>),
      SetOf(20, <<o1, o1b>>), SetOf(21, <<o1, a2>>), SetOf(22, <<a1b>>),
      MapOf(23, <<Prim("1")>>, <<a1>>), MapOf(24, <<Prim("1")>>, <<a1b>>),
      MapOf(25, <<Prim("1")>>, <<a2>>), MapOf(26, <<a1>>, <<Prim("1")>>),
      MapOf(27, <<a1b>>, <<Prim("1")>>), MapOf(28, <<Prim("NaN")>>, <<Prim("1")>>),
      MapOf(29, <<Prim("1"), Prim("2")>>, <<Prim("1"), Prim("2")>>),
      MapOf(30, <<Prim("2"), Prim("1")>>, <<Prim("2"), Prim("1")>>)}
\* a === b
StrictEquals(a, b) ==
  IF a.k = "prim" /\ b.k = "prim" THEN a.v = b.v /\ a.v # "NaN"
  ELSE a.k # "prim" /\ b.k # "prim" /\ a.id = b.id
\* the key comparison of Map.prototype.has / get (SameValueZero)
SameValueZero(a, b) ==
  IF a.k = "prim" /\ b.k = "prim" THEN a.v = b.v
  ELSE a.k # "prim" /\ b.k # "prim" /\ a.id = b.id
\* a && b && typeof a === 'object' && typeof b === 'object'
IsObjectValue(a) == a.k # "prim"
\* deepEqual(a, b)
RECURSIVE deepEqual(_, _)
deepEqual(a, b) ==
  IF StrictEquals(a, b) THEN TRUE
  ELSE IF IsObjectValue(a) /\ IsObjectValue(b) THEN
    IF a.k = "map" \/ b.k = "map" THEN
      /\ a.k = "map" /\ b.k = "map"
      /\ Len(a.keys) = Len(b.keys)
      /\ \A i \in 1..Len(a.keys) :
           \E j \in 1..Len(b.keys) :
             SameValueZero(a.keys[i], b.keys[j]) /\ deepEqual(a.items[i], b.items[j])
    ELSE IF a.k = "set" \/ b.k = "set" THEN
      /\ a.k = "set" /\ b.k = "set"
      /\ Len(a.items) = Len(b.items)
      /\ \A i \in 1..Len(a.items) :
           \E j \in 1..Len(b.items) : deepEqual(a.items[i], b.items[j])
    ELSE IF a.k = "array" \/ b.k = "array" THEN
      /\ a.k = "array" /\ b.k = "array"
      /\ Len(a.items) = Len(b.items)
      /\ \A i \in 1..Len(a.items) : deepEqual(a.items[i], b.items[i])
    ELSE
      /\ Len(a.keys) = Len(b.keys)
      /\ \A i \in 1..Len(a.keys) :
           \E j \in 1..Len(b.keys) :
             a.keys[i] = b.keys[j] /\ deepEqual(a.items[i], b.items[j])
  ELSE a.v = "NaN" /\ b.v = "NaN"
\* assertDeepEquals(actual, expected): how the call ends
assertDeepEquals(actual, expected, id) ==
  IF deepEqual(actual, expected) THEN Out("returned", Undef, NoErr)
  ELSE Out("threw", Undef, AssertErrorNew(id, "Expected deep equality", "", NoErr))

(* routeSafe *)
\* what handler(req, res, next) does: its promise resolves with a value, is
\* rejected with an AssertError, or with another Error
HandlerOutcomes == {"resolves", "fails", "throws"}
RouteSafeFallbacks == {Str("fallback"), Null}
\* `.then((v) => res.json(v)).catch(next)` on a promise that settles as p
routeSafeAnswer(p) ==
  IF p.st = "returned"
  THEN [st |-> "return", err |-> NoErr, handlerRuns |-> 1, json |-> <<p.val>>, next |-> <<>>]
  ELSE [st |-> "return", err |-> NoErr, handlerRuns |-> 1, json |-> <<>>, next |-> <<p.err>>]
\* the body of the middleware for the dispatched arguments d, the handler's
\* promise resolving (e = NoErr) or being rejected with e
routeSafeVia(d, e, id) ==
  IF Len(d.args) = 0
  THEN \* what came back is the wrapped function: it has no `then`
       [st |-> "throw",
        err |-> Err("TypeError", "", id, "assertRouteAsync(...).then is not a function",
                    "none", 0),
        handlerRuns |-> 0, json |-> <<>>, next |-> <<>>]
  ELSE routeSafeAnswer(wrappedCall(d, e, Str("value"), id + 1))
\* the middleware returned by routeSafe(fallback, handler), called once:
\* assertRouteAsync(fallback, () => handler(req, res, next)).then(res.json)
\* .catch(next); st = "throw" is a synchronous throw of the middleware,
\* json / next list the arguments res.json and next were called with
routeSafeMiddleware(fb, h, id) ==
  routeSafeVia(Dispatch(<<fb, Fn("handler")>>),
               IF h = "fails" THEN AssertErrorNew(id, "Assertion failed", "", NoErr)
               ELSE IF h = "throws" THEN Err("Error", "", id, "boom", "none", 0)
               ELSE NoErr,
               id)

(* ------------------------- the wrapped function ----------------------- *)
\* One step of fn's body.  "assert": assert(arg); "throw": fn throws a value
\* of its choice; "await": fn suspends on a pending result; "work": a
\* visible side effect.
Op(o, a) == [op |-> o, arg |-> a]
BodyConds == {True, False}
BodyOps(mode) ==
  {Op("assert", c) : c \in BodyConds} \cup {Op("throw", Undef), Op("work", Undef)}
    \cup (IF mode = "async" THEN {Op("await", Undef)} ELSE {})
Bodies(mode) == UNION {[1..n -> BodyOps(mode)] : n \in 0..MaxBody}

\* an assertion handed to isValid is user code that, run on the arguments,
\* returns ("passes"), fails an assert ("fails") or throws something else
AssertKinds == {"passes", "fails", "throws"}
AssertLists == UNION {[1..n -> AssertKinds] : n \in 0..MaxAsserts}

Modes == {"sync", "async"}
Forms == {"fallbackFirst", "fnFirst"}


(* ------------------------------- state -------------------------------- *)
VARIABLES
  pc,        \* where the program is: idle, asserted, made, try, body, opwait,
             \* await, catch, return, done
  cfg,       \* the caller's call: mode, form, argv and fn's body
  w,         \* the wrapper's closure: fallback, fn, onError, catchNonAssertErrors
  args,      \* the arguments of the wrapped call
  ip,        \* fn's next step
  susp,      \* fn has suspended at least once
  fnRuns,    \* how many times fn was called
  fnArgs,    \* the arguments fn received
  ran,       \* the steps of fn's body that executed, in order
  fnRet,     \* the value fn returned (NoVal: it has not returned)
  raised,    \* the value fn's body threw (NoErr: it has not thrown)
  thrown,    \* the value caught by the wrapper's catch clause
  opPromise, \* the pending result fn returned (async)
  handled,   \* what handleError returned or threw, until the wrapper returns it
  onErrLog,  \* the arguments of every onError call, in order
  outcome,   \* how the wrapped call (or the direct assert) ended
  apiRet,    \* what the assertRoute / assertRouteAsync call evaluated to
  wret,      \* what the wrapped call evaluated to synchronously
  observed,  \* the caller attached a reaction to the wrapper's promise
  nextId,    \* identity of the next object created
  call,      \* the inputs of a direct call of isValid, new AssertError or
             \* toAssertError (and what a second toAssertError returned)
  vlog,      \* the assertions a validator ran, each with the arguments it got
  wrappers,  \* several wrappers alive at once: the closure of each
  invs,      \* the invocations of those wrappers, finished or in flight
  cbLog      \* every onError call made by those wrappers, in order

\* the state of one top-level call
routeVars ==
  <<pc, cfg, w, args, ip, susp, fnRuns, fnArgs, ran, fnRet, raised, thrown, opPromise, handled,
    onErrLog, outcome, apiRet, wret, observed, nextId>>
directVars == <<call, vlog>>
\* the state of a program that keeps several wrappers and calls them in turn
multiVars == <<wrappers, invs, cbLog>>

vars == <<routeVars, directVars, multiVars>>

NoCfg ==
  [mode |-> "none", form |-> "none", fallback |-> Undef, opts |-> Undef, trailing |-> 0,
   argv |-> <<>>, body |-> <<>>, fnAsync |-> FALSE, cond |-> Undef]
NoWrap ==
  [fallback |-> Undef, fn |-> Undef, onError |-> "none", catchNonAssertErrors |-> FALSE]
NoHandled == [cb |-> <<>>, st |-> "none", val |-> Undef, err |-> NoErr, used |-> 0]
NoCall == [op |-> "none"]

Init ==
  /\ pc = "idle"
  /\ cfg = NoCfg
  /\ w = NoWrap
  /\ args = <<>>
  /\ ip = 0
  /\ susp = FALSE
  /\ fnRuns = 0
  /\ fnArgs = <<>>
  /\ ran = <<>>
  /\ fnRet = NoVal
  /\ raised = NoErr
  /\ thrown = NoErr
  /\ opPromise = NoOut
  /\ handled = NoHandled
  /\ onErrLog = <<>>
  /\ outcome = NoOut
  /\ apiRet = "none"
  /\ wret = "none"
  /\ observed = FALSE
  /\ nextId = 1
  /\ call = NoCall
  /\ vlog = <<>>
  /\ wrappers = <<>>
  /\ invs = <<>>
  /\ cbLog = <<>>

(* ------------------------------ actions ------------------------------- *)
\* a direct call assert(c) from top-level code
DirectAssert(c) ==
  /\ pc = "idle"
  /\ LET e == assert(c, nextId)
     IN /\ outcome' = (IF e = NoErr THEN Out("returned", Undef, NoErr)
                       ELSE Out("threw", Undef, e))
        /\ nextId' = (IF e = NoErr THEN nextId ELSE nextId + 1)
  /\ cfg' = [cfg EXCEPT !.mode = "assert", !.cond = c]
  /\ pc' = "asserted"
  /\ UNCHANGED <<w, args, ip, susp, fnRuns, fnArgs, ran, fnRet, raised, thrown, opPromise, handled,
                 onErrLog, apiRet, wret, observed>>
  /\ UNCHANGED <<directVars, multiVars>>

\* the argument list a caller writes: route(fallback, fn, options, ...args)
\* or route(fn, options, ...args)
CallerArgv(form, fb, o, n) ==
  IF form = "fallbackFirst" THEN <<fb, UserFn, o>> \o ArgTuple(n)
  ELSE <<UserFn, o>> \o ArgTuple(n)

\* assertRoute(...) / assertRouteAsync(...): dispatch, build the wrapper
\* (wrapSync / wrapAsync), and invoke it when `args.length` is non-zero
Route(m, form, fb, o, n, b, fa) ==
  /\ pc = "idle"
  /\ LET argv == CallerArgv(form, fb, o, n)
         d == Dispatch(argv)
         wo == WrapOptions(d.opts)
     IN /\ cfg' = [mode |-> m, form |-> form, fallback |-> fb, opts |-> o, trailing |-> n,
                   argv |-> argv, body |-> b, fnAsync |-> fa, cond |-> Undef]
        /\ w' = [fallback |-> d.fallback, fn |-> d.fn, onError |-> wo.onError,
                 catchNonAssertErrors |-> wo.catchNonAssertErrors]
        /\ IF Len(d.args) # 0
           THEN /\ args' = d.args
                /\ pc' = "try"
                /\ apiRet' = "invoked"
           ELSE /\ args' = args
                /\ pc' = "made"
                /\ apiRet' = "function"
  /\ UNCHANGED <<ip, susp, fnRuns, fnArgs, ran, fnRet, raised, thrown, opPromise, handled, onErrLog,
                 outcome, wret, observed, nextId>>
  /\ UNCHANGED <<directVars, multiVars>>

\* assertRoute(a, b, c) / assertRouteAsync(a, b, c) with the first n of any
\* three values: dispatch, build the wrapper and, `args` being empty, return it
RouteAny(a, b, c, n) ==
  /\ pc = "idle"
  /\ LET argv == SubSeq(<<a, b, c>>, 1, n)
         d == Dispatch(argv)
         wo == WrapOptions(d.opts)
     IN /\ cfg' = [NoCfg EXCEPT !.mode = "dispatch", !.argv = argv]
        /\ w' = [fallback |-> d.fallback, fn |-> d.fn, onError |-> wo.onError,
                 catchNonAssertErrors |-> wo.catchNonAssertErrors]
        /\ apiRet' = (IF Len(d.args) # 0 THEN "invoked" ELSE "function")
  /\ pc' = "built"
  /\ UNCHANGED <<args, ip, susp, fnRuns, fnArgs, ran, fnRet, raised, thrown, opPromise, handled,
                 onErrLog, outcome, wret, observed, nextId>>
  /\ UNCHANGED <<directVars, multiVars>>

\* the caller calls the wrapped function it got back
CallWrapped(n) ==
  /\ pc = "made"
  /\ args' = ArgTuple(n)
  /\ pc' = "try"
  /\ UNCHANGED <<cfg, w, ip, susp, fnRuns, fnArgs, ran, fnRet, raised, thrown, opPromise, handled,
                 onErrLog, outcome, apiRet, wret, observed, nextId>>
  /\ UNCHANGED <<directVars, multiVars>>

\* (a wrapper that calls fn() without forwarding its arguments)
EnterFnNoArgs ==
  /\ pc = "try"
  /\ fnRuns' = fnRuns + 1
  /\ fnArgs' = <<>>
  /\ ip' = 1
  /\ pc' = "body"
  /\ outcome' = (IF cfg.mode = "async" THEN Out("pending", Undef, NoErr) ELSE outcome)
  /\ UNCHANGED <<cfg, w, args, susp, ran, fnRet, raised, thrown, opPromise, handled, onErrLog, apiRet,
                 wret, observed, nextId>>
  /\ UNCHANGED <<directVars, multiVars>>

\* the wrapper enters its try block and calls fn(...args)
EnterFn ==
  /\ pc = "try"
  /\ fnRuns' = fnRuns + 1
  /\ fnArgs' = args
  /\ ip' = 1
  /\ pc' = "body"
  /\ outcome' = (IF cfg.mode = "async" THEN Out("pending", Undef, NoErr) ELSE outcome)
  /\ UNCHANGED <<cfg, w, args, susp, ran, fnRet, raised, thrown, opPromise, handled, onErrLog, apiRet,
                 wret, observed, nextId>>
  /\ UNCHANGED <<directVars, multiVars>>

\* fn's body throws e: into the wrapper's catch clause when fn is still
\* running inside the wrapper's call, as a rejection of fn's promise otherwise
Raise(e) ==
  /\ raised' = e
  /\ IF cfg.mode = "async" /\ (susp \/ cfg.fnAsync)
     THEN /\ opPromise' = Out("rejected", Undef, e)
          /\ pc' = "await"
          /\ wret' = "promise"
          /\ thrown' = thrown
     ELSE /\ thrown' = e
          /\ pc' = "catch"
          /\ UNCHANGED <<opPromise, wret>>

\* fn executes its next step
BodyStep ==
  /\ pc = "body"
  /\ ip <= Len(cfg.body)
  /\ ran' = Append(ran, ip)
  /\ LET s == cfg.body[ip]
     IN CASE s.op = "assert" ->
               LET e == assert(s.arg, nextId)
               IN IF e = NoErr
                  THEN /\ ip' = ip + 1
                       /\ UNCHANGED <<pc, raised, thrown, opPromise, wret, susp, nextId>>
                  ELSE /\ Raise(e)
                       /\ nextId' = nextId + 1
                       /\ UNCHANGED <<ip, susp>>
          [] s.op = "throw" ->
               /\ \E x \in ThrowVals : Raise(UserThrow(x, nextId))
               /\ nextId' = nextId + 1
               /\ UNCHANGED <<ip, susp>>
          [] s.op = "work" ->
               /\ ip' = ip + 1
               /\ UNCHANGED <<pc, raised, thrown, opPromise, wret, susp, nextId>>
          [] s.op = "await" ->
               /\ susp' = TRUE
               /\ opPromise' = Out("pending", Undef, NoErr)
               /\ pc' = "opwait"
               /\ wret' = "promise"
               /\ UNCHANGED <<ip, raised, thrown, nextId>>
  /\ UNCHANGED <<cfg, w, args, fnRuns, fnArgs, fnRet, handled, onErrLog, outcome, apiRet,
                 observed>>
  /\ UNCHANGED <<directVars, multiVars>>

\* fn reaches its `return r`
BodyReturn(r) ==
  /\ pc = "body"
  /\ ip = Len(cfg.body) + 1
  /\ fnRet' = r
  /\ IF cfg.mode = "async"
     THEN /\ opPromise' = Out("fulfilled", r, NoErr)
          /\ pc' = "await"
          /\ wret' = "promise"
          /\ outcome' = outcome
     ELSE /\ outcome' = Out("returned", r, NoErr)
          /\ pc' = "done"
          /\ wret' = "value"
          /\ opPromise' = opPromise
  /\ UNCHANGED <<cfg, w, args, ip, susp, fnRuns, fnArgs, ran, raised, thrown, handled,
                 onErrLog, apiRet, observed, nextId>>
  /\ UNCHANGED <<directVars, multiVars>>

\* what fn awaited completes and fn continues after its await
OpResume ==
  /\ pc = "opwait"
  /\ ip' = ip + 1
  /\ pc' = "body"
  /\ UNCHANGED <<cfg, w, args, susp, fnRuns, fnArgs, ran, fnRet, raised, thrown, opPromise, handled,
                 onErrLog, outcome, apiRet, wret, observed, nextId>>
  /\ UNCHANGED <<directVars, multiVars>>

\* (a wrapper whose continuation runs only once its promise is observed)
AwaitResumeWhenObserved ==
  /\ pc = "await"
  /\ observed
  /\ IF opPromise.st = "fulfilled"
     THEN /\ outcome' = Out("fulfilled", opPromise.val, NoErr)
          /\ pc' = "done"
          /\ thrown' = thrown
     ELSE /\ thrown' = opPromise.err
          /\ pc' = "catch"
          /\ outcome' = outcome
  /\ UNCHANGED <<cfg, w, args, ip, susp, fnRuns, fnArgs, ran, fnRet, raised, opPromise, handled,
                 onErrLog, apiRet, wret, observed, nextId>>
  /\ UNCHANGED <<directVars, multiVars>>

\* the wrapper continues after `await fn(...args)`: fn's promise has settled
AwaitResume ==
  /\ pc = "await"
  /\ IF opPromise.st = "fulfilled"
     THEN /\ outcome' = Out("fulfilled", opPromise.val, NoErr)
          /\ pc' = "done"
          /\ thrown' = thrown
     ELSE /\ thrown' = opPromise.err
          /\ pc' = "catch"
          /\ outcome' = outcome
  /\ UNCHANGED <<cfg, w, args, ip, susp, fnRuns, fnArgs, ran, fnRet, raised, opPromise, handled,
                 onErrLog, apiRet, wret, observed, nextId>>
  /\ UNCHANGED <<directVars, multiVars>>

\* the wrapper's catch clause: handleError(e, onError, catchNonAssertErrors, fallback)
Catch ==
  /\ pc = "catch"
  /\ LET h == handleError(thrown, w.onError, w.catchNonAssertErrors, w.fallback, nextId)
     IN /\ handled' = h
        /\ onErrLog' = onErrLog \o h.cb
        /\ nextId' = nextId + h.used
  /\ pc' = "return"
  /\ UNCHANGED <<cfg, w, args, ip, susp, fnRuns, fnArgs, ran, fnRet, raised, thrown, opPromise, outcome,
                 apiRet, wret, observed>>
  /\ UNCHANGED <<directVars, multiVars>>

\* `return handleError(...)`: the wrapped call ends with what handleError
\* returned or threw
WrapReturn ==
  /\ pc = "return"
  /\ IF cfg.mode = "async"
     THEN /\ outcome' = (IF handled.st = "return"
                         THEN Out("fulfilled", handled.val, NoErr)
                         ELSE Out("rejected", Undef, handled.err))
          /\ wret' = "promise"
     ELSE /\ outcome' = (IF handled.st = "return"
                         THEN Out("returned", handled.val, NoErr)
                         ELSE Out("threw", Undef, handled.err))
          /\ wret' = (IF handled.st = "return" THEN "value" ELSE "throw")
  /\ pc' = "done"
  /\ UNCHANGED <<cfg, w, args, ip, susp, fnRuns, fnArgs, ran, fnRet, raised, thrown, opPromise, handled,
                 onErrLog, apiRet, observed, nextId>>
  /\ UNCHANGED <<directVars, multiVars>>

\* isValid(...assertions)(...args): the validator is built and called; it
\* enters its try block
IsValidCall(as, n) ==
  /\ pc = "idle"
  /\ call' = [op |-> "isValid", asserts |-> as]
  /\ cfg' = [cfg EXCEPT !.mode = "isValid", !.trailing = n]
  /\ args' = ArgTuple(n)
  /\ ip' = 1
  /\ pc' = "vloop"
  /\ UNCHANGED <<w, susp, fnRuns, fnArgs, ran, fnRet, raised, thrown, opPromise, handled,
                 onErrLog, outcome, apiRet, wret, observed, nextId, vlog>>
  /\ UNCHANGED multiVars

\* (a validator that notes a failure and goes on with the next assertion)
ValidatorStepRunAll ==
  /\ pc = "vloop"
  /\ IF ip > Len(call.asserts)
     THEN /\ IF raised = NoErr
             THEN outcome' = Out("returned", True, NoErr) /\ pc' = "vdone"
             ELSE outcome' = outcome /\ pc' = "vcatch"
          /\ UNCHANGED <<ip, vlog, raised, thrown, nextId>>
     ELSE /\ vlog' = Append(vlog, [idx |-> ip, args |-> args])
          /\ ip' = ip + 1
          /\ CASE call.asserts[ip] = "passes" -> UNCHANGED <<raised, thrown, nextId>>
               [] call.asserts[ip] = "fails" ->
                    /\ raised' = (IF raised = NoErr THEN assert(False, nextId) ELSE raised)
                    /\ thrown' = raised'
                    /\ nextId' = nextId + 1
               [] call.asserts[ip] = "throws" ->
                    /\ \E x \in ThrowVals :
                         raised' = (IF raised = NoErr THEN UserThrow(x, nextId) ELSE raised)
                    /\ thrown' = raised'
                    /\ nextId' = nextId + 1
          /\ UNCHANGED <<outcome, pc>>
  /\ UNCHANGED <<cfg, w, args, susp, fnRuns, fnArgs, ran, fnRet, opPromise, handled, onErrLog,
                 apiRet, wret, observed, call>>
  /\ UNCHANGED multiVars

\* one turn of `for (const a of assertions) a(...args)`, or `return true`
\* when no assertion is left
ValidatorStep ==
  /\ pc = "vloop"
  /\ IF ip > Len(call.asserts)
     THEN /\ outcome' = Out("returned", True, NoErr)
          /\ pc' = "vdone"
          /\ UNCHANGED <<ip, vlog, raised, thrown, nextId>>
     ELSE /\ vlog' = Append(vlog, [idx |-> ip, args |-> args])
          /\ CASE call.asserts[ip] = "passes" ->
                    /\ ip' = ip + 1
                    /\ UNCHANGED <<raised, thrown, nextId, pc>>
               [] call.asserts[ip] = "fails" ->
                    /\ raised' = assert(False, nextId)
                    /\ thrown' = raised'
                    /\ nextId' = nextId + 1
                    /\ pc' = "vcatch"
                    /\ ip' = ip
               [] call.asserts[ip] = "throws" ->
                    /\ \E x \in ThrowVals : raised' = UserThrow(x, nextId)
                    /\ thrown' = raised'
                    /\ nextId' = nextId + 1
                    /\ pc' = "vcatch"
                    /\ ip' = ip
          /\ outcome' = outcome
  /\ UNCHANGED <<cfg, w, args, susp, fnRuns, fnArgs, ran, fnRet, opPromise, handled, onErrLog,
                 apiRet, wret, observed, call>>
  /\ UNCHANGED multiVars

\* (a validator that swallows a failed assertion and answers true)
ValidatorCatchSwallow ==
  /\ pc = "vcatch"
  /\ outcome' = (IF IsAssertError(thrown) THEN Out("returned", True, NoErr)
                 ELSE Out("threw", Undef, thrown))
  /\ pc' = "vdone"
  /\ UNCHANGED <<cfg, w, args, ip, susp, fnRuns, fnArgs, ran, fnRet, raised, thrown, opPromise,
                 handled, onErrLog, apiRet, wret, observed, nextId>>
  /\ UNCHANGED <<directVars, multiVars>>

\* (a validator that answers false to whatever was thrown)
ValidatorCatchAll ==
  /\ pc = "vcatch"
  /\ outcome' = Out("returned", False, NoErr)
  /\ pc' = "vdone"
  /\ UNCHANGED <<cfg, w, args, ip, susp, fnRuns, fnArgs, ran, fnRet, raised, thrown, opPromise,
                 handled, onErrLog, apiRet, wret, observed, nextId>>
  /\ UNCHANGED <<directVars, multiVars>>

\* the validator's catch clause: `if (e instanceof AssertError) return false;
\* throw e`
ValidatorCatch ==
  /\ pc = "vcatch"
  /\ outcome' = isValidCatch(thrown)
  /\ pc' = "vdone"
  /\ UNCHANGED <<cfg, w, args, ip, susp, fnRuns, fnArgs, ran, fnRet, raised, thrown, opPromise,
                 handled, onErrLog, apiRet, wret, observed, nextId>>
  /\ UNCHANGED <<directVars, multiVars>>

\* a direct new AssertError(message, info)
NewAssertError(message, info, stack) ==
  /\ pc = "idle"
  /\ call' = [op |-> "new", message |-> message, info |-> info, stack |-> stack]
  /\ cfg' = [cfg EXCEPT !.mode = "new"]
  /\ LET r == AssertErrorCtor(nextId, message, info, NoErr, getCallerName(stack))
     IN outcome' = Out(IF r.st = "ok" THEN "constructed" ELSE "threw", Undef, r.err)
  /\ nextId' = nextId + 1
  /\ pc' = "constructed"
  /\ UNCHANGED <<w, args, ip, susp, fnRuns, fnArgs, ran, fnRet, raised, thrown, opPromise,
                 handled, onErrLog, apiRet, wret, observed, vlog>>
  /\ UNCHANGED multiVars

\* how a call of summarizeValue that gave r ends
SummaryOutcome(r, id) ==
  IF r.st = "ok" THEN Out("returned", Str(r.text), NoErr)
  ELSE Out("threw", Undef, Err(r.cls, "", id, r.text, "none", 0))
\* summarizeValue(v) applied to a value: the text returned, or what it throws
Summarize(v) ==
  /\ pc = "idle"
  /\ call' = [op |-> "summarize", v |-> v]
  /\ cfg' = [cfg EXCEPT !.mode = "summarize"]
  /\ outcome' = SummaryOutcome(summarizeValue(v), nextId)
  /\ nextId' = IF outcome'.st = "returned" THEN nextId ELSE nextId + 1
  /\ pc' = "summarized"
  /\ UNCHANGED <<w, args, ip, susp, fnRuns, fnArgs, ran, fnRet, raised, thrown, opPromise,
                 handled, onErrLog, apiRet, wret, observed, vlog>>
  /\ UNCHANGED multiVars

\* a guard called directly on a value, in a runtime with or without DOM
Guard(g, x, env) ==
  /\ pc = "idle"
  /\ call' = [op |-> "guard", g |-> g, x |-> x, env |-> env,
              r |-> GuardCall(g, x, env, nextId)]
  /\ outcome' = Out(IF call'.r.st = "ok" THEN "returned" ELSE "threw", Undef, call'.r.err)
  /\ nextId' = IF call'.r.st = "ok" THEN nextId ELSE nextId + 1
  /\ cfg' = [cfg EXCEPT !.mode = "guard"]
  /\ pc' = "guarded"
  /\ UNCHANGED <<w, args, ip, susp, fnRuns, fnArgs, ran, fnRet, raised, thrown, opPromise,
                 handled, onErrLog, apiRet, wret, observed, vlog>>
  /\ UNCHANGED multiVars

\* a call of assertSqlQuery / assertSqlRun on a database whose statement
\* gives res
SqlCall(kind, res, fb) ==
  /\ pc = "idle"
  /\ call' = [op |-> "sql", kind |-> kind, res |-> res, fallback |-> fb,
              r |-> assertSql(kind, res, fb, nextId)]
  /\ outcome' = call'.r.out
  /\ cfg' = [cfg EXCEPT !.mode = "sql"]
  /\ pc' = "sqldone"
  /\ UNCHANGED <<w, args, ip, susp, fnRuns, fnArgs, ran, fnRet, raised, thrown, opPromise,
                 handled, onErrLog, apiRet, wret, observed, nextId, vlog>>
  /\ UNCHANGED multiVars

\* one request handled by the middleware of routeSafe(fb, handler)
Request(fb, h) ==
  /\ pc = "idle"
  /\ call' = [op |-> "routeSafe", fallback |-> fb, handler |-> h,
              r |-> routeSafeMiddleware(fb, h, nextId)]
  /\ outcome' = Out(IF call'.r.st = "return" THEN "returned" ELSE "threw", Undef, call'.r.err)
  /\ cfg' = [cfg EXCEPT !.mode = "routeSafe"]
  /\ nextId' = nextId + 1
  /\ pc' = "responded"
  /\ UNCHANGED <<w, args, ip, susp, fnRuns, fnArgs, ran, fnRet, raised, thrown, opPromise,
                 handled, onErrLog, apiRet, wret, observed, vlog>>
  /\ UNCHANGED multiVars

\* `if (alias(x)) { ... }` as in checkString / checkArray: branch tells
\* whether the guarded block ran
AliasIf(a, x, env) ==
  /\ pc = "idle"
  /\ call' = [op |-> "alias", a |-> a, x |-> x, env |-> env,
              r |-> aliasCall(a, x, env, nextId)]
  /\ outcome' = Out(IF call'.r.st = "return" THEN "returned" ELSE "threw",
                    call'.r.val, call'.r.err)
  /\ nextId' = IF call'.r.st = "return" THEN nextId ELSE nextId + 1
  /\ cfg' = [cfg EXCEPT !.mode = "alias"]
  /\ pc' = "branched"
  /\ UNCHANGED <<w, args, ip, susp, fnRuns, fnArgs, ran, fnRet, raised, thrown, opPromise,
                 handled, onErrLog, apiRet, wret, observed, vlog>>
  /\ UNCHANGED multiVars

\* the same assertion and arguments given to isValid(a) and to the route
\* of `(...args) => { a(...args); return true }` with fallback false
Agree(a, x, argv) ==
  /\ pc = "idle"
  /\ call' = [op |-> "agree", a |-> a, x |-> x, argv |-> argv,
              valid |-> isValidOne(a, x, argv, 2), routed |-> routeOne(a, x, argv, 3)]
  /\ cfg' = [cfg EXCEPT !.mode = "agree"]
  /\ outcome' = call'.valid
  /\ nextId' = 5
  /\ pc' = "agreed"
  /\ UNCHANGED <<w, args, ip, susp, fnRuns, fnArgs, ran, fnRet, raised, thrown, opPromise,
                 handled, onErrLog, apiRet, wret, observed, vlog>>
  /\ UNCHANGED multiVars

\* what the fn of an invocation does: return a value of its own, fail an
\* assert, or throw an Error
FnOutcomes == {"returns", "fails", "throws"}
ValueOf(i) == Num(ToString(i))
\* the value the fn of invocation i throws; objects made for invocation i
\* have identities 10 * i, 10 * i + 1, ...
RaisedBy(b, i) ==
  IF b = "fails" THEN assert(False, 10 * i)
  ELSE IF b = "throws" THEN UserThrow(Obj("Error"), 10 * i)
  ELSE NoErr

(* a route-wrapped function called from inside another one *)
\* the closure wrapSync / wrapAsync builds from (fallback, fn, options)
NestedClosure(name, fb, o) ==
  [name |-> name, fallback |-> fb, onError |-> WrapOptions(o).onError,
   catchNonAssertErrors |-> WrapOptions(o).catchNonAssertErrors]
\* the options the two wrappers are built with
NestedOptions ==
  {Undef, OptionsObj("returns", "unset"), OptionsObj("throws", "unset"),
   OptionsObj("returns", "true")}
NestedYields(m) == IF m = "async" THEN "fulfilled" ELSE "returned"
NestedThrows(m) == IF m = "async" THEN "rejected" ELSE "threw"
\* the onError calls handleError made, tagged with the wrapper that made them
NestedCbs(name, h) == [j \in 1..Len(h.cb) |-> [cb |-> name, err |-> h.cb[j]]]

\* outer(...) is called: its try block enters the outer body, which will
\* call inner() (awaiting it when the wrappers are async), whose fn does b,
\* and then go on with `after`
NestedStart(m, oo, io, b, after) ==
  /\ pc = "idle"
  /\ call' = [op |-> "nested", mode |-> m,
              outer |-> NestedClosure("outer", Str("fallback1"), oo),
              inner |-> NestedClosure("inner", Str("fallback2"), io),
              innerFn |-> b, after |-> after, cbs |-> <<>>, innerOut |-> NoOut,
              outerSaw |-> NoVal, outerRan |-> <<"callsInner">>]
  /\ cfg' = [cfg EXCEPT !.mode = "nested"]
  /\ pc' = "nestInner"
  /\ UNCHANGED <<w, args, ip, susp, fnRuns, fnArgs, ran, fnRet, raised, thrown, opPromise,
                 handled, onErrLog, outcome, apiRet, wret, observed, nextId, vlog>>
  /\ UNCHANGED multiVars

\* the end of the inner call, whose fn threw e (NoErr: returned) and whose
\* catch clause got h from handleError
NestedInnerEnd(e, h) ==
  IF e = NoErr
  THEN /\ call' = [call EXCEPT !.innerOut = Out(NestedYields(call.mode), ValueOf(1), NoErr),
                               !.outerSaw = ValueOf(1)]
       /\ pc' = "nestAfter"
       /\ UNCHANGED <<raised, thrown>>
  ELSE IF h.st = "return"
  THEN /\ call' = [call EXCEPT !.innerOut = Out(NestedYields(call.mode), h.val, NoErr),
                               !.outerSaw = h.val,
                               !.cbs = call.cbs \o NestedCbs("inner", h)]
       /\ raised' = e
       /\ pc' = "nestAfter"
       /\ UNCHANGED thrown
  ELSE /\ call' = [call EXCEPT !.innerOut = Out(NestedThrows(call.mode), Undef, h.err),
                               !.cbs = call.cbs \o NestedCbs("inner", h)]
       /\ raised' = e
       /\ thrown' = h.err
       /\ pc' = "nestCatch"
NestedInnerRaised(e) ==
  NestedInnerEnd(e, handleError(e, call.inner.onError, call.inner.catchNonAssertErrors,
                                call.inner.fallback, 11))
\* the inner wrapper runs: `try { return fn(...args) } catch (e) { return
\* handleError(e, onError, catchNonAssertErrors, fallback) }`; what it returns
\* goes to the outer body, what it throws leaves the outer body
NestedInner ==
  /\ pc = "nestInner"
  /\ NestedInnerRaised(RaisedBy(call.innerFn, 1))
  /\ nextId' = 20
  /\ UNCHANGED <<cfg, w, args, ip, susp, fnRuns, fnArgs, ran, fnRet, opPromise, handled,
                 onErrLog, outcome, apiRet, wret, observed, vlog>>
  /\ UNCHANGED multiVars

\* the outer body goes on after inner() returned: it returns what it got,
\* fails an assert of its own, or throws an Error
NestedAfter ==
  /\ pc = "nestAfter"
  /\ call' = [call EXCEPT !.outerRan = Append(call.outerRan, "after")]
  /\ IF call.after = "returns"
     THEN /\ outcome' = Out(NestedYields(call.mode), call.outerSaw, NoErr)
          /\ pc' = "nestDone"
          /\ UNCHANGED thrown
     ELSE /\ thrown' = RaisedBy(call.after, 2)
          /\ pc' = "nestCatch"
          /\ UNCHANGED outcome
  /\ UNCHANGED <<cfg, w, args, ip, susp, fnRuns, fnArgs, ran, fnRet, raised, opPromise, handled,
                 onErrLog, apiRet, wret, observed, nextId, vlog>>
  /\ UNCHANGED multiVars

\* the end of the outer call once handleError gave h
NestedOuterEnd(h) ==
  /\ outcome' = (IF h.st = "return" THEN Out(NestedYields(call.mode), h.val, NoErr)
                 ELSE Out(NestedThrows(call.mode), Undef, h.err))
  /\ call' = [call EXCEPT !.cbs = call.cbs \o NestedCbs("outer", h)]
\* the outer wrapper's catch clause
NestedCatch ==
  /\ pc = "nestCatch"
  /\ NestedOuterEnd(handleError(thrown, call.outer.onError, call.outer.catchNonAssertErrors,
                                call.outer.fallback, 30))
  /\ pc' = "nestDone"
  /\ UNCHANGED <<cfg, w, args, ip, susp, fnRuns, fnArgs, ran, fnRet, raised, thrown, opPromise,
                 handled, onErrLog, apiRet, wret, observed, nextId, vlog>>
  /\ UNCHANGED multiVars

\* assertDeepEquals(a, b) and assertDeepEquals(b, a) on the same two values
DeepEquals(a, b) ==
  /\ pc = "idle"
  /\ call' = [op |-> "deepEquals", a |-> a, b |-> b,
              ab |-> assertDeepEquals(a, b, nextId),
              ba |-> assertDeepEquals(b, a, nextId + 1)]
  /\ cfg' = [cfg EXCEPT !.mode = "deepEquals"]
  /\ outcome' = call'.ab
  /\ nextId' = nextId + 2
  /\ pc' = "compared"
  /\ UNCHANGED <<w, args, ip, susp, fnRuns, fnArgs, ran, fnRet, raised, thrown, opPromise,
                 handled, onErrLog, apiRet, wret, observed, vlog>>
  /\ UNCHANGED multiVars

\* a direct toAssertError(e) of a caught value e (the run's first object)
Normalize(e, stack) ==
  /\ pc = "idle"
  /\ call' = [op |-> "toAssertError", e |-> e, stack |-> stack, again |-> NoErr]
  /\ cfg' = [cfg EXCEPT !.mode = "toAssertError"]
  /\ LET r == toAssertErrorAt(e, 2, getCallerName(stack))
     IN /\ outcome' = Out(IF r.st = "ok" THEN "returned" ELSE "threw", Undef, r.err)
        /\ nextId' = 2 + r.used
  /\ pc' = "normalized"
  /\ UNCHANGED <<w, args, ip, susp, fnRuns, fnArgs, ran, fnRet, raised, thrown, opPromise,
                 handled, onErrLog, apiRet, wret, observed, vlog>>
  /\ UNCHANGED multiVars

\* toAssertError applied once more, to what the first call returned
NormalizeAgain ==
  /\ pc = "normalized"
  /\ outcome.st = "returned"
  /\ LET r == toAssertErrorAt(outcome.err, nextId, getCallerName(call.stack))
     IN /\ call' = [call EXCEPT !.again = r.err]
        /\ nextId' = nextId + r.used
  /\ pc' = "renormalized"
  /\ UNCHANGED <<cfg, w, args, ip, susp, fnRuns, fnArgs, ran, fnRet, raised, thrown, opPromise,
                 handled, onErrLog, outcome, apiRet, wret, observed, vlog>>
  /\ UNCHANGED multiVars

\* the caller attaches a reaction to (awaits) the promise it was handed
Observe ==
  /\ wret = "promise"
  /\ ~observed
  /\ observed' = TRUE
  /\ UNCHANGED <<pc, cfg, w, args, ip, susp, fnRuns, fnArgs, ran, fnRet, raised, thrown, opPromise,
                 handled, onErrLog, outcome, apiRet, wret, nextId>>
  /\ UNCHANGED <<directVars, multiVars>>

Next ==
  \/ pc = "idle" /\ \E c \in Conds : DirectAssert(c)
  \/ /\ pc = "idle"
     /\ \E m \in Modes, form \in Forms, o \in OptionsVals, n \in 0..MaxTrailing :
       \E fb \in (IF form = "fnFirst" THEN {Undef} ELSE Fallbacks),
          b \in Bodies(m),
          fa \in (IF m = "async" THEN BOOLEAN ELSE {FALSE}) :
         Route(m, form, fb, o, n, b, fa)
  \/ /\ pc = "idle"
     /\ \E a \in FirstArgs, b \in SecondArgs, c \in ThirdArgs, n \in 0..3 : RouteAny(a, b, c, n)
  \/ pc = "made" /\ \E n \in 0..MaxTrailing : CallWrapped(n)
  \/ EnterFn
  \/ BodyStep
  \/ pc = "body" /\ \E r \in RetVals : BodyReturn(r)
  \/ OpResume
  \/ AwaitResume
  \/ Catch
  \/ WrapReturn
  \/ Observe
  \/ pc = "idle" /\ \E as \in AssertLists, n \in 0..MaxTrailing : IsValidCall(as, n)
  \/ ValidatorStep
  \/ ValidatorCatch
  \/ /\ pc = "idle"
     /\ \E message \in Messages, info \in Infos, stack \in StackKinds :
          NewAssertError(message, info, stack)
  \/ pc = "idle" /\ \E v \in SumVals : Summarize(v)
  \/ pc = "idle" /\ \E g \in Guards, x \in GuardVals, env \in Envs : Guard(g, x, env)
  \/ pc = "idle" /\ \E fb \in RouteSafeFallbacks, h \in HandlerOutcomes : Request(fb, h)
  \/ /\ pc = "idle"
     /\ \E a \in AssertionFns, argv \in AgreeArgs :
          \E x \in (IF a = "throws" THEN ThrowVals ELSE {Undef}) : Agree(a, x, argv)
  \/ pc = "idle" /\ \E a \in Aliases, x \in AliasVals, env \in Envs : AliasIf(a, x, env)
  \/ /\ pc = "idle"
     /\ \E kind \in SqlKinds : \E res \in DbResults(kind), fb \in SqlFallbacks(kind) :
          SqlCall(kind, res, fb)
  \/ pc = "idle" /\ \E e \in NormVals, stack \in StackKinds : Normalize(e, stack)
  \/ NormalizeAgain
  \/ /\ pc = "idle"
     /\ \E m \in Modes, oo \in NestedOptions, io \in NestedOptions, b \in FnOutcomes,
           after \in FnOutcomes : NestedStart(m, oo, io, b, after)
  \/ pc = "idle" /\ \E a \in DeepVals, b \in DeepVals : DeepEquals(a, b)
  \/ NestedInner
  \/ NestedAfter
  \/ NestedCatch

Spec == Init /\ [][Next]_vars

\* the event loop runs every queued continuation: the wrapper's steps are
\* taken once they are enabled; what fn awaits (OpResume) may never complete
FairSpec ==
  /\ Spec
  /\ WF_vars(EnterFn)
  /\ WF_vars(BodyStep)
  /\ WF_vars(\E r \in RetVals : BodyReturn(r))
  /\ WF_vars(AwaitResume)
  /\ WF_vars(Catch)
  /\ WF_vars(WrapReturn)

(* ------------------- several wrappers, called in turn ------------------ *)
\* The program builds wrappers with wrapSync / wrapAsync and calls them, also
\* while earlier calls of async wrappers are suspended.

\* each wrapper is built with a fallback of its own
FallbackOf(k) == Str("fallback" \o ToString(k))
\* (a wrapper that reads fallback and options of the wrapper built last)
ClosureOfLatest(k) == wrappers[Len(wrappers)]

\* the variables fallback, onError, catchNonAssertErrors the closure returned
\* by wrapSync / wrapAsync captured
ClosureOf(k) == wrappers[k]

\* the options those wrappers are built with
MultiOptions == {Undef, OptionsObj("returns", "true"), OptionsObj("throws", "unset")}

\* wrapSync(fallback, fn, options) / wrapAsync(fallback, fn, options)
MakeWrapper(m, o) ==
  /\ Len(wrappers) < MaxWrappers
  /\ LET k == Len(wrappers) + 1
         wo == WrapOptions(o)
     IN wrappers' = Append(wrappers,
                           [id |-> k, mode |-> m, fallback |-> FallbackOf(k),
                            onError |-> wo.onError,
                            catchNonAssertErrors |-> wo.catchNonAssertErrors])
  /\ UNCHANGED <<invs, cbLog, routeVars, directVars>>

\* what invocation i of a wrapper with closure C ends with: fn's value, or
\* what handleError returned or threw (h); and the onError calls made
Settle(C, i, b, e, h) ==
  LET yields == IF C.mode = "async" THEN "fulfilled" ELSE "returned"
      throws == IF C.mode = "async" THEN "rejected" ELSE "threw"
  IN IF b = "returns"
     THEN [out |-> Out(yields, ValueOf(i), NoErr), cbs |-> <<>>, raised |-> e]
     ELSE [out |-> (IF h.st = "return" THEN Out(yields, h.val, NoErr)
                    ELSE Out(throws, Undef, h.err)),
           cbs |-> [j \in 1..Len(h.cb) |-> [cb |-> C.id, inv |-> i, err |-> h.cb[j]]],
           raised |-> e]

\* the wrapper's `try { return fn(...args) } catch (e) { return
\* handleError(e, onError, catchNonAssertErrors, fallback) }` for invocation i
\* of wrapper k, whose fn returned or threw e
Complete(k, i, b, e) ==
  Settle(ClosureOf(k), i, b, e,
         handleError(e, ClosureOf(k).onError, ClosureOf(k).catchNonAssertErrors,
                     ClosureOf(k).fallback, 10 * i + 1))

\* a call of wrapper k whose fn does b: a sync wrapper runs fn and its catch
\* clause to the end; an async wrapper calls fn, which suspends, and awaits
\* the promise fn returned
Invoke(k, b) ==
  /\ k \in 1..Len(wrappers)
  /\ Len(invs) < MaxInvs
  /\ LET r == Complete(k, Len(invs) + 1, b, RaisedBy(b, Len(invs) + 1))
     IN IF wrappers[k].mode = "sync"
        THEN /\ invs' = Append(invs, [w |-> k, fn |-> b, st |-> "done",
                                      raised |-> r.raised, out |-> r.out])
             /\ cbLog' = cbLog \o r.cbs
        ELSE /\ invs' = Append(invs, [w |-> k, fn |-> b, st |-> "suspended",
                                      raised |-> NoErr,
                                      out |-> Out("pending", Undef, NoErr)])
             /\ cbLog' = cbLog
  /\ UNCHANGED <<wrappers, routeVars, directVars>>

\* the fn of a suspended invocation finishes: its promise settles
FnSettles(i) ==
  /\ i \in 1..Len(invs)
  /\ invs[i].st = "suspended"
  /\ invs' = [invs EXCEPT ![i].st = "settled", ![i].raised = RaisedBy(invs[i].fn, i)]
  /\ UNCHANGED <<wrappers, cbLog, routeVars, directVars>>

\* the async wrapper continues after its await: return, or catch and
\* handleError
Resume(i) ==
  /\ i \in 1..Len(invs)
  /\ invs[i].st = "settled"
  /\ LET r == Complete(invs[i].w, i, invs[i].fn, invs[i].raised)
     IN /\ invs' = [invs EXCEPT ![i].st = "done", ![i].out = r.out]
        /\ cbLog' = cbLog \o r.cbs
  /\ UNCHANGED <<wrappers, routeVars, directVars>>

MultiNext ==
  \/ \E m \in Modes, o \in MultiOptions : MakeWrapper(m, o)
  \/ \E k \in 1..MaxWrappers, b \in FnOutcomes : Invoke(k, b)
  \/ \E i \in 1..MaxInvs : FnSettles(i)
  \/ \E i \in 1..MaxInvs : Resume(i)

MultiSpec == Init /\ [][MultiNext]_vars

(* ===================== what the caller's program does ================== *)
\* The values JavaScript treats as false in a condition.
JSFalsy ==
  {Undef, Null, False, Num("0"), Num("-0"), Num("NaN"), Val("bigint", "0"), Str("")}

\* whether step s of a body throws when executed
Throws(s) == s.op = "throw" \/ (s.op = "assert" /\ s.arg \in JSFalsy)

\* the first step of the caller's fn that throws (0: fn returns normally)
FailIdx ==
  IF \E i \in 1..Len(cfg.body) : Throws(cfg.body[i])
  THEN CHOOSE i \in 1..Len(cfg.body) :
         Throws(cfg.body[i]) /\ \A j \in 1..(i - 1) : ~Throws(cfg.body[j])
  ELSE 0
IsRoute == cfg.mode \in Modes
FnFailsAssert == IsRoute /\ FailIdx > 0 /\ cfg.body[FailIdx].op = "assert"
FnThrowsOther == IsRoute /\ FailIdx > 0 /\ cfg.body[FailIdx].op = "throw"
FnReturns == IsRoute /\ FailIdx = 0
\* fn awaits before its failing step: the failure is a rejection after suspension
AwaitsBeforeFail == \E i \in 1..(FailIdx - 1) : cfg.body[i].op = "await"

\* the AssertError a failing assert(false) creates (the run's first object)
TheAssertError == Err("AssertError", "ASSERT_FAILED", 1, "Assertion failed", "none", 0)
\* fn threw a value of user code: one of ThrowVals, created as the run's
\* first object
ThrewUserValue == \E x \in ThrowVals : raised = UserThrow(x, 1)

\* the wrapped call ended by yielding v: returned (sync) or fulfilled (async)
Yields(v) ==
  outcome = Out(IF cfg.mode = "async" THEN "fulfilled" ELSE "returned", v, NoErr)
\* the wrapped call ended by propagating e: thrown (sync) or rejected (async)
Propagates(e) ==
  outcome = Out(IF cfg.mode = "async" THEN "rejected" ELSE "threw", Undef, e)
\* the options the caller wrote
OnErrorGiven == cfg.opts.onError # "none"
CatchGiven == cfg.opts.catchNonAssertErrors = "true"

(* ------------------------------- C1 ----------------------------------- *)
\* C1: assert(condition) throws if and only if condition is falsy; what it
\* throws is an AssertError whose code is 'ASSERT_FAILED'; for a truthy
\* condition it returns and nothing else has changed: no callback was
\* invoked, no object was created, no function was run.
C1_AssertThrowsIffFalsy ==
  pc = "asserted" =>
    /\ (outcome.st = "threw") <=> (cfg.cond \in JSFalsy)
    /\ outcome.st = "threw" =>
         /\ outcome.err.cls = "AssertError"
         /\ outcome.err.code = "ASSERT_FAILED"
    /\ cfg.cond \notin JSFalsy =>
         /\ outcome = Out("returned", Undef, NoErr)
         /\ onErrLog = <<>> /\ fnRuns = 0 /\ ran = <<>> /\ fnRet = NoVal /\ nextId = 1
         /\ raised = NoErr
         /\ w = NoWrap /\ thrown = NoErr /\ apiRet = "none" /\ wret = "none"
C1_Witness ==
  /\ pc = "asserted"
  /\ cfg.cond = Num("NaN")
  /\ outcome.st = "threw"
  /\ outcome.err.code = "ASSERT_FAILED"

(* ------------------------------- C4 ----------------------------------- *)
\* C4: with catchNonAssertErrors unset or false, when fn throws (or its
\* promise rejects with) a value that is not an AssertError, the wrapped call
\* propagates that very value (same class, same identity, same message),
\* onError is not invoked, and the fallback is not yielded.
C4_NonAssertErrorPropagates ==
  (pc = "done" /\ FnThrowsOther /\ ~CatchGiven) =>
    /\ ThrewUserValue
    /\ Propagates(raised)
    /\ onErrLog = <<>>
C4_Witness ==
  /\ pc = "done"
  /\ cfg.mode = "async"
  /\ FnThrowsOther
  /\ AwaitsBeforeFail
  /\ cfg.opts.catchNonAssertErrors = "false"
  /\ cfg.opts.onError = "returns"
  /\ outcome.st = "rejected"
  /\ outcome.err.cls = "Error"

(* ------------------------------- C6 ----------------------------------- *)
\* C6: when fn returns normally, the wrapped call yields exactly fn's value
\* (also when it is undefined, null or equal to the fallback), fn received
\* the call's arguments unchanged, fn ran exactly once, every step of its
\* body ran once in order, and onError was not invoked.
C6_NormalReturnPassesThrough ==
  (pc = "done" /\ FnReturns) =>
    /\ Yields(fnRet)
    /\ fnArgs = args
    /\ fnRuns = 1
    /\ ran = [i \in 1..Len(cfg.body) |-> i]
    /\ onErrLog = <<>>
C6_Witness ==
  /\ pc = "done"
  /\ cfg.mode = "sync"
  /\ FnReturns
  /\ fnRet = Num("0")
  /\ cfg.fallback = Num("0")
  /\ cfg.opts.onError = "returns"
  /\ Len(args) = 2
  /\ fnArgs = args
  /\ outcome.st = "returned"

(* ------------------------------- C2 ----------------------------------- *)
\* C2: when the function wrapped by assertRoute throws an AssertError, the
\* wrapped call invokes onError (if present) exactly once, with that same
\* AssertError object, before it returns, and then returns the fallback.
C2_OnErrorOnceThenFallback ==
  /\ (cfg.mode = "sync" /\ FnFailsAssert /\ pc \in {"return", "done"}) =>
       onErrLog = (IF OnErrorGiven THEN <<TheAssertError>> ELSE <<>>)
  /\ (cfg.mode = "sync" /\ FnFailsAssert /\ onErrLog # <<>> /\ pc # "done") =>
       outcome = NoOut
  /\ (cfg.mode = "sync" /\ FnFailsAssert /\ pc = "done") => Yields(cfg.fallback)

(* ------------------------------- C3 ----------------------------------- *)
\* C3: a call through a route wrapper never throws (sync) and never rejects
\* (async) when fn fails with an AssertError: for every fn, every fallback
\* and every options object, whatever its onError callback does, the call
\* yields the fallback.
C3_FailureNeverEscapes ==
  (pc = "done" /\ FnFailsAssert) => Yields(cfg.fallback)

(* ------------------------------- C5 ----------------------------------- *)
\* C5: with catchNonAssertErrors true, when fn throws any value that is not
\* an AssertError, onError is invoked exactly once with an AssertError that
\* carries the thrown value's message, and the call yields the fallback
\* instead of throwing.
C5_CaughtNonAssertErrorRecovered ==
  (pc = "done" /\ FnThrowsOther /\ CatchGiven) =>
    /\ Yields(cfg.fallback)
    /\ OnErrorGiven =>
         /\ Len(onErrLog) = 1
         /\ onErrLog[1].cls = "AssertError"
         /\ onErrLog[1].msg = raised.msg

(* ------------------------------- C7 ----------------------------------- *)
\* C7: once an assertion fails inside a routed function, the steps before
\* the failing assert have run (once, in order), no later step runs, and the
\* call yields the fallback.
C7_NothingRunsAfterFailedAssert ==
  (pc = "done" /\ FnFailsAssert) =>
    /\ ran = [i \in 1..FailIdx |-> i]
    /\ fnRet = NoVal
    /\ Yields(cfg.fallback)

(* ------------------------------- C8 ----------------------------------- *)
\* C8: the async wrapper treats a Failure the same whether fn throws it
\* before its first suspension or its promise rejects with it afterwards:
\* onError is invoked exactly once with the Failure and the wrapper's
\* promise fulfils with the fallback; and when fn resolves, the wrapper's
\* promise fulfils with the resolved value.
C8_AsyncFailureBeforeOrAfterSuspension ==
  /\ (cfg.mode = "async" /\ pc = "done" /\ FnFailsAssert) =>
       /\ onErrLog = (IF OnErrorGiven THEN <<TheAssertError>> ELSE <<>>)
       /\ outcome = Out("fulfilled", cfg.fallback, NoErr)
  /\ (cfg.mode = "async" /\ pc = "done" /\ FnReturns) =>
       outcome = Out("fulfilled", fnRet, NoErr)

(* ------------------------------- C9 ----------------------------------- *)
\* C9: every invocation made through assertRouteAsync returns a promise and
\* never throws synchronously: the call of the function it returned, and the
\* call of assertRouteAsync itself with trailing arguments, which invokes
\* immediately and so evaluates to a promise, not to a function.
C9_AsyncAlwaysReturnsPromise ==
  cfg.mode = "async" =>
    /\ wret \in {"none", "promise"}
    /\ pc \in {"opwait", "await", "done"} => wret = "promise"
    /\ cfg.trailing > 0 => apiRet = "invoked"

(* ------------------------------- C10 ---------------------------------- *)
\* C10: one invocation of an async wrapper starts fn exactly once and never
\* restarts it (its steps run in order, each at most once); fn's next step
\* is enabled whether or not the wrapper's promise is observed; and whenever
\* fn's promise settles, the wrapper's promise eventually settles: fulfilled
\* with fn's result or the fallback, or rejected with an exception.
Settled(p) == p.st \in {"fulfilled", "rejected"}
C10_AsyncRunsToSettlement ==
  /\ [](cfg.mode = "async" =>
          /\ fnRuns <= 1
          /\ pc \in {"body", "opwait", "await", "catch", "return", "done"} => fnRuns = 1
          /\ \A i, j \in 1..Len(ran) : i < j => ran[i] < ran[j]
          /\ pc = "body" => ENABLED (BodyStep \/ \E r \in RetVals : BodyReturn(r))
          /\ outcome.st = "fulfilled" => outcome.val \in {fnRet, cfg.fallback}
          /\ outcome.st = "rejected" => outcome.err # NoErr)
  /\ [][cfg.mode = "async" =>
          /\ fnRuns' >= fnRuns
          /\ Len(ran') >= Len(ran)
          /\ SubSeq(ran', 1, Len(ran)) = ran
          /\ Settled(outcome) => outcome' = outcome]_vars
  /\ (cfg.mode = "async" /\ Settled(opPromise)) ~> Settled(outcome)
C10_Witness ==
  /\ cfg.mode = "async"
  /\ pc = "done"
  /\ susp
  /\ ~observed
  /\ Settled(opPromise)
  /\ Settled(outcome)
  /\ fnRuns = 1

(* ------------------------------- C11 ---------------------------------- *)
\* C11: assertRoute and assertRouteAsync choose between their two call forms
\* solely by whether the first argument is a function: if it is, the first
\* argument is the wrapped function, the second is the options and the
\* fallback is undefined; otherwise the first argument is the fallback, the
\* second the wrapped function and the third the options.
C11_DispatchByFirstArgument ==
  (cfg.mode \in Modes \cup {"dispatch"}) =>
    LET first == ArgAt(cfg.argv, 1)
        second == ArgAt(cfg.argv, 2)
        third == ArgAt(cfg.argv, 3)
    IN IF first.t = "function"
       THEN /\ w.fn = first
            /\ w.fallback = Undef
            /\ w.onError = second.onError
            /\ w.catchNonAssertErrors = (second.catchNonAssertErrors = "true")
       ELSE /\ w.fallback = first
            /\ w.fn = second
            /\ w.onError = third.onError
            /\ w.catchNonAssertErrors = (third.catchNonAssertErrors = "true")
\* a function written as the fallback is taken for the wrapped function
C11_Witness ==
  /\ pc = "built"
  /\ cfg.argv = <<Fn("g"), UserFn, OptionsObj("throws", "unset")>>
  /\ w.fn = Fn("g")
  /\ w.fallback = Undef
  /\ w.onError = "none"

(* ------------------------------- C12 ---------------------------------- *)
\* C12: in either call form, supplying one or more trailing arguments after
\* the options invokes the wrapped function immediately, exactly once, with
\* exactly those trailing arguments, and the call evaluates to its result
\* directly instead of to a function.
C12_TrailingArgsInvokeImmediately ==
  (IsRoute /\ cfg.trailing > 0) =>
    /\ apiRet = "invoked"
    /\ pc \in {"body", "opwait", "await", "catch", "return", "done"} =>
         /\ fnRuns = 1
         /\ fnArgs = ArgTuple(cfg.trailing)
    /\ (pc = "done" /\ FnReturns) => Yields(fnRet)

(* ------------------------------- C13 ---------------------------------- *)
\* C13: assertRoute(fallback, fn) / assertRouteAsync(fallback, fn), written
\* without trailing arguments, runs fn at once and evaluates directly to fn's
\* result (a promise of it for the async variant), not to a function.
C13_FallbackFormRunsAtOnce ==
  (IsRoute /\ cfg.form = "fallbackFirst" /\ cfg.trailing = 0) =>
    /\ apiRet = "invoked"
    /\ pc # "made"
    /\ (pc = "done" /\ FnReturns) => Yields(fnRet)

(* --------------------------- isValid: helpers ------------------------- *)
\* the first assertion of the list that throws (0: every assertion passes)
FirstThrower ==
  IF \E i \in 1..Len(call.asserts) : call.asserts[i] # "passes"
  THEN CHOOSE i \in 1..Len(call.asserts) :
         call.asserts[i] # "passes" /\ \A j \in 1..(i - 1) : call.asserts[j] = "passes"
  ELSE 0
IsValidator == call.op = "isValid"

(* ------------------------------- C14 ---------------------------------- *)
\* C14: for every list of assertions (the empty one included) and every
\* argument tuple, the validator returns true if and only if every assertion
\* completes without throwing, and returns false when the first assertion
\* that throws throws an AssertError.
C14_TrueIffAllPass ==
  (IsValidator /\ pc = "vdone") =>
    /\ (outcome = Out("returned", True, NoErr))
         <=> (\A i \in 1..Len(call.asserts) : call.asserts[i] = "passes")
    /\ (FirstThrower > 0 /\ call.asserts[FirstThrower] = "fails") =>
         outcome = Out("returned", False, NoErr)
C14_Witness ==
  /\ IsValidator
  /\ pc = "vdone"
  /\ call.asserts = <<"passes", "fails", "throws">>
  /\ Len(args) = 2
  /\ outcome = Out("returned", False, NoErr)

(* ------------------------------- C15 ---------------------------------- *)
\* C15: the validator runs its assertions one at a time in the order
\* supplied, each against the same argument tuple, and stops at the first
\* assertion that throws: no assertion after it is ever run, and each
\* assertion before it has run exactly once.
C15_InOrderUntilFirstThrow ==
  IsValidator =>
    LET last == IF FirstThrower > 0 THEN FirstThrower ELSE Len(call.asserts)
    IN /\ \A i \in 1..Len(vlog) : vlog[i] = [idx |-> i, args |-> args]
       /\ Len(vlog) <= last
       /\ pc \in {"vcatch", "vdone"} => Len(vlog) = last
C15_Witness ==
  /\ IsValidator
  /\ pc = "vdone"
  /\ call.asserts = <<"passes", "throws", "fails">>
  /\ vlog = <<[idx |-> 1, args |-> <<Num("1")>>], [idx |-> 2, args |-> <<Num("1")>>]>>

(* ------------------------------- C16 ---------------------------------- *)
\* C16: when an assertion run by the validator throws a value that is not
\* an AssertError, the validator re-throws exactly that value (same class,
\* identity and message; not wrapped, not turned into false).
C16_NonAssertErrorRethrown ==
  (IsValidator /\ pc = "vdone" /\ FirstThrower > 0
     /\ call.asserts[FirstThrower] = "throws") =>
    /\ ThrewUserValue
    /\ outcome = Out("threw", Undef, raised)
C16_Witness ==
  /\ IsValidator
  /\ pc = "vdone"
  /\ call.asserts = <<"passes", "throws">>
  /\ outcome.st = "threw"
  /\ outcome.err = UserThrow(Str("oops"), 0)

(* ------------------------------- C18 ---------------------------------- *)
\* every thrown or caught value the state holds
ErrorsInState ==
  {outcome.err, raised, thrown, handled.err, opPromise.err}
    \cup {onErrLog[i] : i \in 1..Len(onErrLog)}
    \cup (IF call.op = "toAssertError" THEN {call.e, call.again} ELSE {})
\* C18: every AssertError, however it is created (by assert, by normalizing
\* a caught value, by a direct construction; message given or empty; call
\* stack available or not), has a non-empty message; an empty message is
\* replaced by '<caller> failed', the caller name falling back to 'assert';
\* and whether the construction returns or throws does not depend on the
\* call stack: without a `value` to summarize it always returns.
C18_MessageNeverEmpty ==
  /\ \A e \in ErrorsInState : IsAssertError(e) => e.msg # ""
  /\ call.op = "new" =>
       /\ (outcome.st = "threw") <=>
            (call.info.hasValue /\ summarizeValue(call.info.value).st = "throw")
       /\ (outcome.st = "constructed" /\ call.message = "" /\ ~call.info.hasValue) =>
            outcome.err.msg = (IF call.stack = "named" THEN "checkUser failed"
                               ELSE "assert failed")
  /\ call.op = "toAssertError" =>
       /\ (outcome.st = "threw") <=> (call.e.cls = "nullproto")
       /\ (outcome.st = "returned" /\ call.e.msg = "") =>
            outcome.err.msg = (IF call.stack = "named" THEN "checkUser failed"
                               ELSE "assert failed")
C18_Witness ==
  /\ call.op = "new"
  /\ call.message = ""
  /\ call.stack = "absent"
  /\ call.info = InfoOther
  /\ outcome.st = "constructed"
  /\ outcome.err.msg = "assert failed"

(* ------------------------------- C19 ---------------------------------- *)
\* C19 (as stated): a failure built from a non-empty message and an info
\* that contains a `value` entry, whatever the value (null, 0, '' and
\* undefined included), has the message
\* message + " (got: " + summarize(value) + ")"; without a `value` entry the
\* message is kept verbatim; for "custom" and [1,2,3,4] the message contains
\* `custom (got: array(len=4, sample=[1, 2, 3]` followed by the ellipsis.
C19_ValueEntryAppended ==
  (call.op = "new" /\ call.message # "" /\ outcome.st = "constructed") =>
    /\ outcome.err.msg =
         (IF call.info.hasValue
          THEN call.message \o " (got: " \o summarizeValue(call.info.value).text \o ")"
          ELSE call.message)
    /\ call.info = InfoValue(Arr("e4")) =>
         outcome.err.msg \in
           {"custom (got: array(len=4, sample=[1, 2, 3]" \o Ellipsis \o t :
              t \in {"", ")", "))"}}
\* C19 (amended): the summary is appended when the `value` entry is not
\* undefined (null, 0 and '' included); with no `value` entry, or with
\* value: undefined, the message is kept verbatim; for "custom" and
\* [1,2,3,4] the message is
\* `custom (got: array(len=4, sample=[1, 2, 3, <ellipsis>]))`.
C19_DefinedValueAppended ==
  (call.op = "new" /\ call.message # "" /\ outcome.st = "constructed") =>
    /\ outcome.err.msg =
         (IF call.info.hasValue /\ call.info.value # Undef
          THEN call.message \o " (got: " \o summarizeValue(call.info.value).text \o ")"
          ELSE call.message)
    /\ call.info = InfoValue(Null) => outcome.err.msg = "custom (got: null)"
    /\ call.info = InfoValue(Num("0")) => outcome.err.msg = "custom (got: number(0))"
    /\ call.info = InfoValue(Str("")) =>
         outcome.err.msg = "custom (got: string(len=0, sample=\"\"))"
    /\ call.info = InfoValue(Undef) => outcome.err.msg = "custom"
    /\ call.info = InfoValue(Arr("e4")) =>
         outcome.err.msg = "custom (got: array(len=4, sample=[1, 2, 3, " \o Ellipsis \o "]))"
C19_Witness ==
  /\ call.op = "new"
  /\ call.message = "custom"
  /\ call.info = InfoValue(Arr("e4"))
  /\ outcome.st = "constructed"
  /\ outcome.err.msg = "custom (got: array(len=4, sample=[1, 2, 3, ...]))"

(* ------------------------------- C20 ---------------------------------- *)
\* C20: normalizing a caught value e returns e itself when e already is a
\* Failure (so normalizing twice equals normalizing once); otherwise it
\* returns a new Failure whose message is e's message (e's textual form when
\* e is not an Error) and whose cause is the caught value e itself.
C20_NormalizeKeepsOriginalAsCause ==
  call.op = "toAssertError" =>
    /\ outcome.st = "returned"
    /\ IsAssertError(outcome.err)
    /\ IF IsAssertError(call.e)
       THEN outcome.err = call.e
       ELSE /\ outcome.err.id \notin {0, call.e.id}
            /\ outcome.err.msg = call.e.msg
            /\ outcome.err.causeCls = call.e.cls
            /\ outcome.err.causeId = call.e.id
    /\ pc = "renormalized" => call.again = outcome.err

(* ------------------------------- C17 ---------------------------------- *)
\* the onError calls made for invocation i, in order
CallsFor(i) == SelectSeq(cbLog, LAMBDA en : en.inv = i)
\* C17: wrapper invocations are stateless relative to one another: for any
\* sequence and interleaving of invocations (the same wrapper again, another
\* wrapper, sync, or async with suspended calls in flight), the outcome of
\* each invocation and the onError calls it triggers depend only on its own
\* fn outcome and on the fallback and options of its own wrapper; no
\* wrapper's onError is invoked for, and no wrapper's fallback returned for,
\* a failure of an invocation of another wrapper.
C17_InvocationsIndependent ==
  /\ \A j \in 1..Len(cbLog) : cbLog[j].cb = invs[cbLog[j].inv].w
  /\ \A i \in 1..Len(invs) :
       LET W == wrappers[invs[i].w]
           b == invs[i].fn
           yields == IF W.mode = "async" THEN "fulfilled" ELSE "returned"
           throws == IF W.mode = "async" THEN "rejected" ELSE "threw"
           handles == b = "fails" \/ (b = "throws" /\ W.catchNonAssertErrors)
       IN /\ invs[i].st # "done" => CallsFor(i) = <<>>
          /\ invs[i].st = "done" =>
               /\ Len(CallsFor(i)) = (IF handles /\ W.onError # "none" THEN 1 ELSE 0)
               /\ \A j \in 1..Len(CallsFor(i)) :
                    /\ CallsFor(i)[j].cb = W.id
                    /\ 10 * i \in {CallsFor(i)[j].err.id, CallsFor(i)[j].err.causeId}
               /\ b = "returns" => invs[i].out = Out(yields, ValueOf(i), NoErr)
               /\ (handles /\ W.onError # "throws") =>
                    invs[i].out = Out(yields, FallbackOf(invs[i].w), NoErr)
               /\ (handles /\ W.onError = "throws") =>
                    invs[i].out = Out(throws, Undef, CallbackError(invs[i].out.err.id))
               /\ (b = "throws" /\ ~W.catchNonAssertErrors) =>
                    invs[i].out = Out(throws, Undef, UserThrow(Obj("Error"), 10 * i))
               /\ invs[i].out.err # NoErr => invs[i].out.err.id \in (10 * i)..(10 * i + 9)
\* two calls of different async wrappers in flight at once, finished in the
\* opposite order, each with its own callback and fallback
C17_Witness ==
  /\ Len(invs) = 2
  /\ invs[1].w = 1 /\ invs[2].w = 2
  /\ wrappers[1].mode = "async" /\ wrappers[2].mode = "async"
  /\ invs[1].st = "done" /\ invs[2].st = "done"
  /\ invs[1].fn = "fails" /\ invs[2].fn = "fails"
  /\ Len(cbLog) = 2
  /\ cbLog[1].inv = 2 /\ cbLog[1].cb = 2
  /\ cbLog[2].inv = 1 /\ cbLog[2].cb = 1
  /\ invs[1].out = Out("fulfilled", FallbackOf(1), NoErr)
  /\ invs[2].out = Out("fulfilled", FallbackOf(2), NoErr)

(* ------------------------------- C21 ---------------------------------- *)
\* C21: the summarizer never throws and always returns a string, for every
\* input (a self-referential array or object and a value whose property
\* access throws included); so a failure constructed with {value: v} is
\* always an AssertError, never another kind of error.
C21_SummarizerNeverThrows ==
  /\ call.op = "summarize" => (outcome.st = "returned" /\ outcome.val.t = "string")
  /\ (call.op = "new" /\ call.info.hasValue) =>
       (outcome.st = "constructed" /\ IsAssertError(outcome.err))

(* ------------------------------- C22 ---------------------------------- *)
\* C22: the summary shows at most the first 3 elements of an array, the
\* first 3 keys of an object (insertion order) and the first 12 characters
\* of a string, and carries the ellipsis exactly when the input has more
\* than 3 elements, more than 3 keys, or more than 12 characters.
C22_EllipsisExactlyWhenTruncated ==
  (call.op = "summarize" /\ outcome.st = "returned") =>
    LET v == call.v
        text == outcome.val.v
        more(n, limit) == IF n > limit THEN Ellipsis ELSE ""
        sep(n, limit) == IF n > limit THEN ", " ELSE ""
    IN /\ v.t = "array" =>
            text = "array(len=" \o ToString(Len(Elems(v))) \o ", sample=["
                   \o Join([i \in 1..Len(Take(Elems(v), 3)) |->
                              JSONStringify(Elems(v)[i]).text], ", ")
                   \o sep(Len(Elems(v)), 3) \o more(Len(Elems(v)), 3) \o "])"
       /\ v.t = "object" =>
            text = "object(keys=[" \o Join(Take(Keys(v), 3), ", ")
                   \o sep(Len(Keys(v)), 3) \o more(Len(Keys(v)), 3) \o "])"
       /\ v.t = "string" =>
            text = "string(len=" \o ToString(Len(v.v)) \o ", sample=\"" \o Slice12(v)
                   \o more(Len(v.v), 12) \o "\")"
       /\ v = Obj("k3") => text = "object(keys=[a, b, c])"
       /\ v = Obj("k4") => text = "object(keys=[a, b, c, " \o Ellipsis \o "])"
       /\ v = Arr("e3") => text = "array(len=3, sample=[1, 2, 3])"
       /\ v = Arr("e4") => text = "array(len=4, sample=[1, 2, 3, " \o Ellipsis \o "])"
       /\ v = Str("abcdefghijkl") => text = "string(len=12, sample=\"abcdefghijkl\")"
       /\ v = Str("abcdefghijklmnop") =>
            text = "string(len=16, sample=\"abcdefghijkl" \o Ellipsis \o "\")"

C24_GuardReturnsOrThrowsAssertError ==
  call.op = "guard" =>
    IF GuardHolds(call.g, call.x)
    THEN outcome.st = "returned"
    ELSE /\ outcome.st = "threw"
         /\ IsAssertError(outcome.err)
         /\ outcome.err.msg = GuardMessage(call.g)
         /\ call.r.got # ""

(* ------------------------------- C25 ---------------------------------- *)
\* C25: assertSqlQuery prepares the statement, runs it once and returns its
\* rows, or the fallback when the rows are not an array; assertSqlRun runs
\* the statement once and returns the number of changed rows, or the
\* fallback when no row was changed; the database is queried during the
\* call and what is returned is rows / a number, never a function.
C25_SqlHelpersQueryAndReturnData ==
  call.op = "sql" =>
    /\ call.r.prepares = 1
    /\ call.r.runs = 1
    /\ outcome.st = "returned"
    /\ outcome.val.t # "function"
    /\ call.kind = "assertSqlQuery" =>
         outcome.val = (IF call.res.t = "array" THEN call.res ELSE call.fallback)
    /\ call.kind = "assertSqlRun" =>
         outcome.val = (IF call.res # Num("0") THEN call.res ELSE call.fallback)

(* ------------------------------- C26 ---------------------------------- *)
\* C26: the middleware of routeSafe(fallback, handler) never throws
\* synchronously; for each request it invokes the handler exactly once, and
\* then exactly one of these happens: res.json(value) when the handler
\* resolved, res.json(fallback) when it failed with an AssertError,
\* next(error) when it failed with anything else.
C26_RouteSafeAnswersOnce ==
  call.op = "routeSafe" =>
    /\ outcome.st = "returned"
    /\ call.r.handlerRuns = 1
    /\ Len(call.r.json) + Len(call.r.next) = 1
    /\ call.handler = "resolves" => call.r.json = <<Str("value")>>
    /\ call.handler = "fails" => call.r.json = <<call.fallback>>
    /\ call.handler = "throws" => (Len(call.r.next) = 1 /\ call.r.next[1].cls = "Error")

(* ------------------------------- C27 ---------------------------------- *)
\* C27: isNonEmptyString and isNonEmptyArray work as boolean guards in an
\* `if`: for a non-empty string (resp. non-empty array) they return a
\* truthy value, so the guarded branch runs.
AliasBranchRan == call.r.st = "return" /\ Truthy(call.r.val)
C27_AliasTruthyForNonEmpty ==
  (call.op = "alias" /\ NonEmptyFor(call.a, call.x)) =>
    /\ outcome.st = "returned"
    /\ Truthy(outcome.val)
    /\ AliasBranchRan

(* ------------------------------- C28 ---------------------------------- *)
\* C28: for every assertion a and argument tuple, isValid(a)(args) and the
\* default-options sync route of `(...args) => { a(...args); return true }`
\* with fallback false agree: one returns the boolean b exactly when the
\* other returns b, and one throws a value exactly when the other throws
\* that same value.
C28_ValidatorAgreesWithRoute ==
  call.op = "agree" =>
    /\ call.valid = call.routed
    /\ call.valid.st = "returned" => call.valid.val \in {True, False}
    /\ call.valid.st = "threw" => call.valid.err = UserThrow(call.x, 1)
C28_Witness ==
  /\ call.op = "agree"
  /\ call.a = "throws"
  /\ call.x = Str("oops")
  /\ call.valid.st = "threw"
  /\ call.routed = Out("threw", Undef, UserThrow(Str("oops"), 1))

(* ------------------------------- C29 ---------------------------------- *)
\* the onError calls wrapper `name` made in a nested run
NestedCalls(name) == SelectSeq(call.cbs, LAMBDA c : c.cb = name)
\* C29: when a route-wrapped function called inside another route-wrapped
\* function fails with an AssertError, the innermost wrapper alone consumes
\* the failure: the inner onError (if any) is invoked once, the inner
\* fallback is returned into the outer body, the outer body continues, and
\* the outer onError is not invoked and the outer fallback not used unless
\* the outer body itself fails afterwards.
C29_InnerFailureStaysInner ==
  (call.op = "nested" /\ call.innerFn = "fails" /\ pc # "nestInner") =>
    /\ Len(NestedCalls("inner")) = (IF call.inner.onError = "none" THEN 0 ELSE 1)
    /\ \A i \in 1..Len(NestedCalls("inner")) : NestedCalls("inner")[i].err = raised
    /\ call.innerOut = Out(NestedYields(call.mode), call.inner.fallback, NoErr)
    /\ call.outerSaw = call.inner.fallback
    /\ pc = "nestDone" => call.outerRan = <<"callsInner", "after">>
    /\ (pc = "nestDone" /\ call.after = "returns") =>
         /\ NestedCalls("outer") = <<>>
         /\ outcome = Out(NestedYields(call.mode), call.inner.fallback, NoErr)
    /\ \A i \in 1..Len(NestedCalls("outer")) : NestedCalls("outer")[i].err # raised

(* ------------------------------- C30 ---------------------------------- *)
\* C30: the deep equality of assertDeepEquals is symmetric: for all a and b
\* built from primitives, NaN, arrays, plain objects, Maps and Sets (Sets
\* whose members are deep-equal to one another included),
\* assertDeepEquals(a, b) throws if and only if assertDeepEquals(b, a) throws.
C30_DeepEqualsSymmetric ==
  call.op = "deepEquals" => ((call.ab.st = "threw") <=> (call.ba.st = "threw"))

====
